---- MODULE Spec2Model ----
(***************************************************************************)
(* A state-machine model of the DraftKings standings scraper:              *)
(*   - DraftKingsScraper (src/scraper.py): initialize, refresh_and_scrape, *)
(*     close, and the legacy one-shot scrape_standings;                    *)
(*   - the two poll loops: run_scraper_loop (src/app.py) and scheduler     *)
(*     (src/scheduler.py);                                                 *)
(*   - the deduplicating collector scrape_standings                        *)
(*     (src/data_downloader/scraper.py);                                   *)
(*   - the extractor parse_dk_standings (src/html_parser.py).              *)
(* Every await of the code is one step; a browser operation may succeed,   *)
(* raise a transient error, or raise because the browser has died.         *)
(***************************************************************************)
EXTENDS Integers, Sequences, FiniteSets, TLC

\* ---------------------------------------------------------------- bounds
\* Largest leaderboard (number of teams in the contest).
MaxTeams == 3
\* Rows the virtualized table mounts at once.
WindowSize == 2
\* refresh_and_scrape calls a poll loop may start before the model stops it.
MaxPolls == 2
\* Method calls the free-form client makes on one DraftKingsScraper.
MaxCalls == 3
\* Scroll-loop iterations explored before the model stops the loop.
MaxScrollIters == 4
\* An iteration bound a collector would have to enforce (below MaxScrollIters).
StabilizationBound == 3
\* Most rows of a frame handed to dfs_win_probs.
MaxEntries == 2
\* Most trials (sims) of one dfs_win_probs call.
MaxSims == 2
\* Largest seed (random_state) of the generator.
MaxSeed == 65
\* Largest seed a caller passes as random_state.
MaxPassedSeed == 1
\* Calls of dfs_win_probs that are recorded and compared.
MaxRuns == 2
\* Most example_standings files in data_downloads.
MaxExamples == 2
\* Most runs of load_data the scraper thread makes beside one page callback.
MaxLoads == 2
\* Most times the page moves under the collector during one scrape_standings.
MaxMoves == 1
\* Most rows of the markup handed to the parser alone.
MaxMarkupRows == 2

\* ------------------------------------------------------ program constants
\* app.py:133 / scheduler.py:42: the inter-poll sleep, in 1 s ticks.
SleepTicks == 45
\* app.py:143 / scheduler.py:48: the settle sleep after the reload.
SettleTicks == 15
\* app.py:150: the backoff after a failed poll.
BackoffTicks == 60

None == "None"

VARIABLES
    program,            \* entry point: "app", "scheduler", "legacy", "client"
    config,             \* example_contests.txt: "missing", "blank", "ok"
    authFile,           \* os.path.exists(AUTH_STATE_FILE)
    alive,              \* the browser process is alive
    numTeams,           \* teams on the contest's leaderboard
    viewTop,            \* rows scrolled past in the virtualized table
    browser,            \* self.browser
    playwright,         \* self.playwright
    context,            \* self.context
    page,               \* self.page
    target_url,         \* self.target_url
    pc,                 \* position of the caller (loop, thread, client)
    mpc,                \* position inside the DraftKingsScraper method running
    ret,                \* how the last method call ended
    lastErr,            \* kind of the last exception raised by a method
    i,                  \* ticks slept in the current sleep phase
    previous_count,     \* refresh_and_scrape local
    current_count,      \* refresh_and_scrape local
    html_content,       \* refresh_and_scrape local: rows in page.content()
    standings_df,       \* refresh_and_scrape local: parsed rows
    files,              \* data_downloads/standings_*.csv, in write order
    scraper,            \* app.py global scraper
    scraper_running,    \* app.py global
    scraper_initialized,\* app.py global
    g,                  \* history: counters of calls and releases
    h,                  \* history: facts about the current poll and stop
    col,                \* state of the collector scrape_standings(page)
    examples,           \* data_downloads/example_standings_<k>.csv files
    standings_data,     \* app.standings_data
    latest,             \* what get_latest_data returned last
    cc,                 \* the two threads that share standings_data
    df,                 \* the frame handed to dfs_win_probs
    sigma2,             \* the sigma2 handed to dfs_win_probs, in halves
    sims,               \* the sims handed to dfs_win_probs
    random_state,       \* the random_state handed to dfs_win_probs
    runs                \* the calls of dfs_win_probs made so far

envVars == <<config, authFile, alive, numTeams, viewTop>>
objVars == <<browser, playwright, context, page, target_url>>
locVars == <<previous_count, current_count, html_content, standings_df>>
appVars == <<scraper, scraper_running, scraper_initialized>>
dashVars == <<examples, standings_data, latest, cc>>
projVars == <<df, sigma2, sims, random_state, runs>>
pureVars == <<dashVars, projVars>>
scraperVars == <<program, config, authFile, alive, numTeams, objVars, pc, mpc, ret,
                 lastErr, i, locVars, files, appVars, g, h>>
vars == <<program, config, authFile, alive, numTeams, viewTop, browser, playwright,
          context, page, target_url, pc, mpc, ret, lastErr, i, previous_count,
          current_count, html_content, standings_df, files, scraper,
          scraper_running, scraper_initialized, g, h, col, examples,
          standings_data, latest, cc, df, sigma2, sims, random_state, runs>>

\* ------------------------------------------------------------ the extractor
\* An optional field: Null is Python's None (NaN in a DataFrame), Some(v) a value.
Null == <<>>
Some(v) == <<v>>

\* What one selector finds in a row: Null when it matches no element, else the
\* element it matches, whose text is v or is empty.
ElemText(v) == <<1, v>>
ElemEmpty == <<0, 0>>

\* One leaderboard row as the markup shows it, as the outcomes of the selectors
\* tried for each field in the order of the code; team t holds rank t.
Row(t) ==
    [Rank |-> <<ElemText(t)>>, TeamName |-> <<ElemText(t)>>,
     PMR |-> <<ElemText(0), ElemText(0)>>,
     FPTS |-> <<ElemText(0), Null, ElemText(0), Null>>]

\* html_parser.py:47-48, 53-56: select_one(a) or select_one(b) or ...: the
\* element of the first selector that matches one (an element is always truthy).
RECURSIVE FirstMatch(_)
FirstMatch(strategies) ==
    IF strategies = <<>> THEN Null
    ELSE IF Head(strategies) # Null THEN Head(strategies)
    ELSE FirstMatch(Tail(strategies))

\* html_parser.py:8-12: the integer in the text of el, None without one.
to_int(el) == IF el = Null \/ el = ElemEmpty THEN Null ELSE Some(el[2])

\* html_parser.py:14-18, 57-60: the number in the text of el, None without one.
to_float(el) == IF el = Null \/ el = ElemEmpty THEN Null ELSE Some(el[2])

\* html_parser.py:43: the text of el, which may be the empty string (team 0).
get_text(el) == IF el = Null THEN Null ELSE IF el = ElemEmpty THEN Some(0) ELSE Some(el[2])

\* html_parser.py:37-60: the four fields of one row of the markup.
ExtractRow(m) ==
    [Rank |-> to_int(FirstMatch(m.Rank)), TeamName |-> get_text(FirstMatch(m.TeamName)),
     PMR |-> to_int(FirstMatch(m.PMR)), FPTS |-> to_float(FirstMatch(m.FPTS))]

ExtractRows(html) == [k \in 1..Len(html) |-> ExtractRow(html[k])]

\* Mutant of KeepRow: a row is kept only when its points resolved.
KeepRow_NeedsPoints(r) == r.FPTS # Null

\* html_parser.py:62: a row is kept when any field resolved.
KeepRow(r) == r.Rank # Null \/ r.TeamName # Null \/ r.PMR # Null \/ r.FPTS # Null

RECURSIVE KeptRows(_)
KeptRows(rows) ==
    IF rows = <<>> THEN <<>>
    ELSE IF KeepRow(Head(rows)) THEN <<Head(rows)>> \o KeptRows(Tail(rows))
    ELSE KeptRows(Tail(rows))

\* sort_values("Rank", kind="stable"): a goes before b; NaN ranks go last.
RankBefore(a, b) == a.Rank # Null /\ (b.Rank = Null \/ a.Rank[1] < b.Rank[1])

RECURSIVE InsertByRank(_, _)
InsertByRank(r, sorted) ==
    IF sorted = <<>> THEN <<r>>
    ELSE IF RankBefore(r, Head(sorted)) THEN <<r>> \o sorted
    ELSE <<Head(sorted)>> \o InsertByRank(r, Tail(sorted))

RECURSIVE SortByRank(_)
SortByRank(rows) ==
    IF rows = <<>> THEN <<>>
    ELSE InsertByRank(rows[Len(rows)], SortByRank(SubSeq(rows, 1, Len(rows) - 1)))

\* Mutant of parse_dk_standings: sorts only when every kept row has a rank.
parse_dk_standings_AllRanked(html) ==
    LET data == KeptRows(ExtractRows(html)) IN
    IF data # <<>> /\ \A k \in 1..Len(data) : data[k].Rank # Null
    THEN SortByRank(data) ELSE data

\* html_parser.py:36-69: extract the fields of every row of the markup, keep the
\* rows with a resolved field; sort them by rank when some rank is present.
parse_dk_standings(html) ==
    LET data == KeptRows(ExtractRows(html)) IN
    IF data # <<>> /\ \E k \in 1..Len(data) : data[k].Rank # Null
    THEN SortByRank(data) ELSE data

\* Rows as the markup can show them.  A selector for a descendant matches only
\* where the selector for its container does; an element can be there, empty.
MarkupRows ==
    [Rank : {<<Null>>, <<ElemText(1)>>, <<ElemText(2)>>},
     TeamName : {<<Null>>, <<ElemEmpty>>, <<ElemText(1)>>},
     PMR : {<<Null, Null>>, <<ElemText(0), ElemText(0)>>, <<ElemEmpty, ElemText(0)>>},
     FPTS : {<<Null, Null, Null, Null>>, <<ElemText(0), Null, ElemText(0), Null>>,
             <<ElemEmpty, Null, ElemText(0), Null>>, <<Null, Null, ElemText(0), Null>>}]

\* html_parser.py:71-77: the parser run on a saved page.
parser_main ==
    /\ pc = "parser"
    /\ pc' = "parsed"
    /\ standings_df' = parse_dk_standings(html_content)
    /\ UNCHANGED <<program, envVars, objVars, mpc, ret, lastErr, i, previous_count,
                   current_count, html_content, files, appVars, g, h, col, pureVars>>

\* ------------------------------------------------------ the virtualized view
\* Row counts the table can have mounted: all of a small leaderboard, else a
\* window (the row at the edge may or may not be mounted).
MountedCounts ==
    IF numTeams <= WindowSize THEN {numTeams} ELSE {WindowSize - 1, WindowSize}

\* The rows mounted when n rows are mounted from offset top.
MountedRows(top, n) ==
    [k \in 1..(IF top + n <= numTeams THEN n ELSE numTeams - top) |-> Row(top + k)]

\* Offsets the view can have after the row at position last is scrolled into view.
ScrollTargets(last) ==
    {t \in 0..numTeams : /\ t >= viewTop
                         /\ t < last
                         /\ t <= (IF numTeams > WindowSize THEN numTeams - WindowSize ELSE 0)}

\* ------------------------- calculate_win_probability.py: dfs_win_probs
\* Cells of a frame: Some(v) is a number, Null is NaN, Text(v) is the string
\* that spells v and PyNone the object None, as a frame read from CSV has them.
Text(v) == <<"str", v>>
PyNone == <<"None", 0>>
IsNum(c) == Len(c) = 1
IsNaN(c) == c = Null

\* calculate_win_probability.py:4: the default sigma2 = 0.5, in halves.
DefaultSigma2 == 1

\* Points are counted in quarters, so that FPTS + PMR / 4.0 is an integer;
\* sigma2 is counted in halves (1 is the default 0.5).
Quarter == 4

\* np.sqrt on the values used here, which are perfect squares.
Sqrt(x) == CHOOSE r \in 0..x : r * r <= x /\ (r + 1) * (r + 1) > x

\* Mutant of Mu: the remaining minutes are subtracted from the points.
Mu_Decaying(r) ==
    IF IsNum(r.FPTS) /\ IsNum(r.PMR) THEN Some(Quarter * r.FPTS[1] - r.PMR[1]) ELSE Null

\* calculate_win_probability.py:29: mu = FPTS + PMR / 4.0, in quarters.
Mu(r) ==
    IF IsNum(r.FPTS) /\ IsNum(r.PMR) THEN Some(Quarter * r.FPTS[1] + r.PMR[1]) ELSE Null

\* Mutant of StdOf: the variance has a floor of the variance of two minutes.
StdOf_Floored(r, s2) ==
    IF IsNum(r.PMR) THEN Some(Sqrt(2 * Quarter * (s2 + 1) * (r.PMR[1] + 2))) ELSE Null

\* calculate_win_probability.py:30-31: std = sqrt(sigma2 * PMR), in quarters:
\* 4 * sqrt((s2 / 2) * PMR) = sqrt(8 * s2 * PMR).
StdOf(r, s2) ==
    IF IsNum(r.PMR) THEN Some(Sqrt(2 * Quarter * s2 * r.PMR[1])) ELSE Null

\* calculate_win_probability.py:36: a standard normal draw is counted in
\* thousandths, and so is a draw of a team.
ZScale == 1000

\* The streams that differ before their k-th draw: a draw takes one of four
\* values when k is 0 or 1 modulo 4, one of two otherwise.
StreamsBefore(k) == (64 ^ ((k - 1) \div 4)) * <<1, 4, 8, 16>>[((k - 1) % 4) + 1]

\* calculate_win_probability.py:27, 36: the k-th standard normal draw of the
\* generator a seed determines, in thousandths.  Seeds 0 and 1 give the first
\* values of numpy's default_rng(0) and default_rng(1).  Every other seed
\* stands for one stream OS entropy can give: its k-th draw has the sign and
\* the size that the k-th digit of the seed names, so that the seeds give every
\* pattern of them.  The two teams of a trial draw from different values
\* (-2.003, -0.431, 0.431, 2.003 and -1.709, 1.709), chosen so that either
\* team can win a trial whenever one of them has some spread, and so that the
\* two draw the same score only when neither has any, as two draws of a
\* continuous distribution differ.
StandardNormal(seed, k) ==
    LET published == <<<<126, -132, 640, 105>>, <<346, 822, 330, -1303>>>>
        wide == k % 4 \in {0, 1}
        digit == ((seed - Len(published)) \div StreamsBefore(k)) % (IF wide THEN 4 ELSE 2)
        sign == IF digit % 2 = 0 THEN 1 ELSE -1
        size == IF wide THEN <<431, 2003>>[(digit \div 2) + 1] ELSE 1709
    IN  IF seed < Len(published) THEN published[seed + 1][k]
        ELSE sign * size

\* calculate_win_probability.py:36: draws[t, s] = mu[t] + std[t] * z, in
\* thousandths of a quarter point; the draws are taken row by row, and a NaN
\* mean or scale gives a NaN draw.
Draw(frame, s2, n_sims, seed, t, s) ==
    LET m == Mu(frame[t])
        sd == StdOf(frame[t], s2)
    IN IF IsNaN(m) \/ IsNaN(sd) THEN Null
       ELSE Some(ZScale * m[1] + sd[1] * StandardNormal(seed, (t - 1) * n_sims + s))

\* Mutant of ArgMax: the last index of the maximum.
ArgMax_Last(column) ==
    LET n == Len(column)
        nans == {t \in 1..n : IsNaN(column[t])}
        best == {t \in 1..n : \A u \in 1..n : column[u][1] <= column[t][1]}
        Last(S) == CHOOSE t \in S : \A u \in S : t >= u
    IN IF nans # {} THEN Last(nans) ELSE Last(best)

\* calculate_win_probability.py:39: np.argmax over the teams of one trial: the
\* first NaN when there is one, else the first index of the maximum.
ArgMax(column) ==
    LET n == Len(column)
        nans == {t \in 1..n : IsNaN(column[t])}
        best == {t \in 1..n : \A u \in 1..n : column[u][1] <= column[t][1]}
        First(S) == CHOOSE t \in S : \A u \in S : t <= u
    IN IF nans # {} THEN First(nans) ELSE First(best)

\* calculate_win_probability.py:39: the winner of trial s.
Winner(frame, s2, n_sims, seed, s) ==
    ArgMax([t \in 1..Len(frame) |-> Draw(frame, s2, n_sims, seed, t, s)])

\* Mutant of WinCount: a trial is counted for every team that reaches the
\* maximum, so a tied trial is won twice.
WinCount_TiesShared(frame, s2, n_sims, seed, t) ==
    Cardinality({s \in 1..n_sims :
        LET d(u) == Draw(frame, s2, n_sims, seed, u, s)
        IN \/ IsNaN(d(t))
           \/ \A u \in 1..Len(frame) : ~IsNaN(d(u)) /\ d(u)[1] <= d(t)[1]})

\* calculate_win_probability.py:40: np.bincount(winners, minlength=n_teams).
WinCount(frame, s2, n_sims, seed, t) ==
    Cardinality({s \in 1..n_sims : Winner(frame, s2, n_sims, seed, s) = t})

\* The arithmetic of lines 29-30 needs numbers: a string or None cell raises
\* TypeError; argmax of no team at all raises ValueError.
ProbsRaises(frame) ==
    IF \E t \in 1..Len(frame) : \/ ~IsNum(frame[t].FPTS) /\ ~IsNaN(frame[t].FPTS)
                                \/ ~IsNum(frame[t].PMR) /\ ~IsNaN(frame[t].PMR)
    THEN "TypeError"
    ELSE IF frame = <<>> THEN "ValueError" ELSE "none"

\* calculate_win_probability.py:4-47: the frame with ProjFinal, StdDev and
\* WinProb (wins out of sims) added to every row.
dfs_win_probs(frame, s2, n_sims, seed) ==
    IF ProbsRaises(frame) # "none"
    THEN [raised |-> ProbsRaises(frame), rows |-> <<>>]
    ELSE [raised |-> "none",
          rows |-> [t \in 1..Len(frame) |->
                      [ProjFinal |-> Mu(frame[t]),
                       StdDev |-> StdOf(frame[t], s2),
                       WinProb |-> [wins |-> WinCount(frame, s2, n_sims, seed, t),
                                    sims |-> n_sims]] @@ frame[t]]]

\* Values of the columns of the frames explored: FPTS in points, PMR in
\* minutes, sigma2 in halves (0.0, 0.5 and 2.0).
FptsValues == {0, 1}
PmrValues == {0, 2, 8}
Sigma2Values == {0, 1, 4}

\* The frames of n rows: every FPTS and PMR is a number or NaN.
Frames(n) ==
    [1..n -> [TeamName : {Some(0)},
              FPTS : {Null} \cup {Some(v) : v \in FptsValues},
              PMR : {Null} \cup {Some(v) : v \in PmrValues}]]

\* A frame names its teams by position.
Named(frame) == [t \in 1..Len(frame) |-> [frame[t] EXCEPT !.TeamName = Some(t)]]

\* Seeds a caller can pass, and the ones OS entropy can give when
\* random_state is None, for a call that takes n draws: the seeds that differ
\* in one of the first n draws (a seed above them repeats the first n draws of
\* one of them).
Seeds(n) == {seed \in 0..MaxSeed : seed <= MaxPassedSeed + StreamsBefore(n + 1)}

\* Mutant of default_rng: np.random.default_rng() without the argument: the
\* generator is seeded from OS entropy whatever random_state is.
default_rng_Unseeded(rs, n) == Seeds(n)

\* calculate_win_probability.py:27: rng = np.random.default_rng(random_state),
\* constructed anew in every call: the streams the generator can be for a call
\* that takes n draws: the one stream of an integer random_state, any stream
\* when random_state is None.
default_rng(rs, n) == IF rs = Null THEN Seeds(n) ELSE {rs[1]}

\* A call of dfs_win_probs (calculate_win_probability.py:4-47, called at lines
\* 49-58, app.py:65 and data_plotter.py:21): line 27 constructs the generator
\* from random_state, lines 29-46 compute the returned frame from the
\* arguments and the draws of that generator.  Each call is recorded with its
\* arguments.
proj_call ==
    /\ pc = "projection"
    /\ Len(runs) < MaxRuns
    /\ \E out \in {dfs_win_probs(df, sigma2, sims, seed) :
                      seed \in default_rng(random_state, Len(df) * sims)} :
          runs' = Append(runs, [df |-> df, sigma2 |-> sigma2, sims |-> sims,
                                random_state |-> random_state, out |-> out])
    /\ UNCHANGED <<scraperVars, viewTop, col, dashVars, df, sigma2, sims, random_state>>

\* Between two calls the caller raises one team's PMR, its FPTS held fixed.
proj_raise_pmr ==
    /\ pc = "projection"
    /\ Len(runs) = 1
    /\ df = runs[1].df
    /\ \E t \in 1..Len(df) : \E p \in PmrValues :
          /\ IsNum(df[t].PMR)
          /\ p > df[t].PMR[1]
          /\ df' = [df EXCEPT ![t].PMR = Some(p)]
    /\ UNCHANGED <<scraperVars, viewTop, col, dashVars, sigma2, sims, random_state, runs>>

\* Between two calls the caller drops the rows with a missing FPTS or PMR.
proj_dropna ==
    /\ pc = "projection"
    /\ Len(runs) = 1
    /\ df = runs[1].df
    /\ df' = SelectSeq(df, LAMBDA r : IsNum(r.FPTS) /\ IsNum(r.PMR))
    /\ df' # df
    /\ UNCHANGED <<scraperVars, viewTop, col, dashVars, sigma2, sims, random_state, runs>>

\* Between two calls the caller passes another random_state.
proj_reseed ==
    /\ pc = "projection"
    /\ Len(runs) = 1
    /\ df = runs[1].df
    /\ \E r \in {Null} \cup {Some(x) : x \in 0..MaxPassedSeed} :
          /\ r # random_state
          /\ random_state' = r
    /\ UNCHANGED <<scraperVars, viewTop, col, dashVars, df, sigma2, sims, runs>>

projection ==
    \/ proj_call
    \/ proj_raise_pmr
    \/ proj_dropna
    \/ proj_reseed

\* ------------------------------------ data_loader.py and app.py: the data
\* scraper.py:114-115: the k-th snapshot is data_downloads/standings_<date>_<time>.csv;
\* the name is kept as the text before the last "_", the number after it and
\* the extension.
SnapshotName(k) == [prefix |-> "standings_<date>_", stamp |-> k, ext |-> ".csv"]

\* A file data_downloads/example_standings_<k>.csv.
ExampleName(k) == [prefix |-> "example_standings_", stamp |-> k, ext |-> ".csv"]

\* data_loader.py:70: os.listdir("data_downloads"): the snapshots the polls
\* wrote and the example files put there, in any order: the listings the call
\* can return.
Directory(snapshots, exs) ==
    LET entries ==
            [k \in 1..Len(snapshots) |-> [name |-> SnapshotName(k), rows |-> snapshots[k]]]
            \o [k \in 1..Len(exs) |-> [name |-> ExampleName(k), rows |-> exs[k]]]
        n == Len(entries)
        orders == {p \in [1..n -> 1..n] : \A a, b \in 1..n : a # b => p[a] # p[b]}
    IN  {[k \in 1..n |-> entries[p[k]]] : p \in orders}

\* The snapshots an example file can hold: up to two rows, ranked by position,
\* of which the team name may be the empty string (team 0) and PMR and FPTS
\* may be missing.
ExampleFiles ==
    UNION {[1..n -> [Rank : {Some(1)}, TeamName : {Some(0), Some(1), Some(2)},
                     PMR : {Null, Some(2)}, FPTS : {Null, Some(1)}]] : n \in 0..2}

\* scraper.py:118: to_csv writes a row as its four cells; a missing value is
\* written as an empty field, and so is a team name that is the empty string
\* (team 0, html_parser.py:43).
CsvLine(r) ==
    <<r.Rank, IF r.TeamName = Some(0) THEN Null ELSE r.TeamName, r.PMR, r.FPTS>>

\* data_loader.py:5-9: parse_line finds the non-empty fields of a line, as
\* strings; an empty field is no match of [^,]+ and the later fields move left.
parse_line(line) ==
    LET present == SelectSeq(line, LAMBDA c : c # Null)
    IN [j \in 1..Len(present) |-> Text(present[j][1])]

\* The longest of some parsed lines.
Widest(data) ==
    CHOOSE w \in 0..4 : /\ \A k \in 1..Len(data) : Len(data[k]) <= w
                        /\ \E k \in 1..Len(data) : Len(data[k]) = w

\* data_loader.py:30-63: load_standings_file.  pd.DataFrame(data, columns=header)
\* pads short rows with None up to the longest row and raises ValueError when
\* the longest row has not as many fields as the header.
load_standings_file(rows) ==
    LET data == [k \in 1..Len(rows) |-> parse_line(CsvLine(rows[k]))]
        Cell(k, j) == IF j <= Len(data[k]) THEN data[k][j] ELSE PyNone
    IN IF rows = <<>> THEN [raised |-> FALSE, rows |-> <<>>]
       ELSE IF Widest(data) # 4 THEN [raised |-> TRUE, rows |-> <<>>]
       ELSE [raised |-> FALSE,
             rows |-> [k \in 1..Len(rows) |->
                         [Rank |-> Cell(k, 1), TeamName |-> Cell(k, 2),
                          PMR |-> Cell(k, 3), FPTS |-> Cell(k, 4)]]]

\* data_loader.py:71: the files the aggregation reads.
IsStandingsFile(name) == name.ext = ".csv" /\ name.prefix = "example_standings_"

\* data_loader.py:76: the timeindex is the number after the last "_".
TimeIndex(name) == name.stamp

\* data_loader.py:65-88: load_standings_directory: the rows of every selected,
\* non-empty file with the file's timeindex, one file after the other in the
\* order of the listing; pd.concat(all_data, ignore_index=True) labels the rows
\* 0, 1, 2, ... by position (the field index is the label of a row).
RECURSIVE load_standings_directory(_)
load_standings_directory(dir) ==
    IF dir = <<>> THEN [raised |-> FALSE, rows |-> <<>>]
    ELSE LET front == load_standings_directory(SubSeq(dir, 1, Len(dir) - 1))
             file == dir[Len(dir)]
             frame == load_standings_file(file.rows)
         IN IF ~IsStandingsFile(file.name) THEN front
            ELSE IF frame.raised \/ front.raised THEN [raised |-> TRUE, rows |-> <<>>]
            ELSE [raised |-> FALSE,
                  rows |-> front.rows
                           \o [k \in 1..Len(frame.rows) |->
                                 [index |-> Len(front.rows) + k - 1,
                                  timeindex |-> TimeIndex(file.name)] @@ frame.rows[k]]]

\* drop_duplicates(subset=..., keep="first"): keys[k] is the value of the
\* subset in row k; a row is kept when no earlier row has its key.
RECURSIVE DropDuplicates(_, _)
DropDuplicates(rows, keys) ==
    IF rows = <<>> THEN <<>>
    ELSE LET n == Len(rows)
             front == DropDuplicates(SubSeq(rows, 1, n - 1), SubSeq(keys, 1, n - 1))
         IN IF \E j \in 1..(n - 1) : keys[j] = keys[n] THEN front
            ELSE Append(front, rows[n])

TeamAndTime(rows) == [k \in 1..Len(rows) |-> <<rows[k].TeamName, rows[k].timeindex>>]
Team(rows) == [k \in 1..Len(rows) |-> rows[k].TeamName]

\* app.py:24-41: load_data: the aggregated rows without duplicates of
\* (Team Name, timeindex).
load_data(dir) ==
    LET loaded == load_standings_directory(dir)
    IN [raised |-> loaded.raised, rows |-> DropDuplicates(loaded.rows, TeamAndTime(loaded.rows))]

\* The number a cell sorts by; strings sort as text, which for the one-digit
\* values used here is the order of the numbers they spell.
SortKey(c) == IF IsNum(c) THEN c[1] ELSE c[2]
Sortable(c) == IsNum(c) \/ (Len(c) = 2 /\ c[1] = "str")

\* sort_values("ProjFinal", ascending=False): a goes before b; missing values
\* go last.
ProjBefore(a, b) ==
    Sortable(a.ProjFinal) /\ (~Sortable(b.ProjFinal)
                              \/ SortKey(a.ProjFinal) > SortKey(b.ProjFinal))

RECURSIVE InsertByProj(_, _)
InsertByProj(r, sorted) ==
    IF sorted = <<>> THEN <<r>>
    ELSE IF ProjBefore(r, Head(sorted)) THEN <<r>> \o sorted
    ELSE <<Head(sorted)>> \o InsertByProj(r, Tail(sorted))

RECURSIVE SortByProj(_)
SortByProj(rows) ==
    IF rows = <<>> THEN <<>>
    ELSE InsertByProj(rows[Len(rows)], SortByProj(SubSeq(rows, 1, Len(rows) - 1)))

\* The largest timeindex of some rows.
LatestTime(rows) ==
    CHOOSE t \in {rows[k].timeindex : k \in 1..Len(rows)} :
        \A k \in 1..Len(rows) : rows[k].timeindex <= t

\* The columns of the frames: those of a snapshot, those load adds, those of a
\* projection and those of the fallback.
SnapshotColumns == {"Rank", "Team Name", "PMR", "FPTS"}
LoadedColumns == SnapshotColumns \cup {"timeindex"}
ProjectionColumns == {"ProjFinal", "StdDev", "WinProb"}
FallbackColumns == {"ProjFinal", "WinProb"}

\* app.py:49: frame[mask['timeindex'] == latest_time]: a boolean Series used as
\* an indexer is aligned with the frame by index label: a row of the frame is
\* kept when the mask is true at its label, and a label of the frame that the
\* mask does not have raises IndexingError.
BooleanIndex(frame, mask, latest_time) ==
    LET Labels(f) == {f[k].index : k \in 1..Len(f)}
        TrueAt(label) == \E k \in 1..Len(mask) : /\ mask[k].index = label
                                                 /\ mask[k].timeindex = latest_time
    IN IF ~(Labels(frame) \subseteq Labels(mask)) THEN [raised |-> TRUE, rows |-> <<>>]
       ELSE [raised |-> FALSE, rows |-> SelectSeq(frame, LAMBDA r : TrueAt(r.index))]

\* app.py:51-75: the rest of get_latest_data on the rows line 49 selected, as
\* the set of values it can return: None when there is no row, else one row
\* per team with the projection of dfs_win_probs (default sigma2 and sims, no
\* random_state, so any stream of draws) or, when that raises, ProjFinal = FPTS
\* and WinProb = 0.0; sorted by ProjFinal.  failed records which of the two
\* happened.
LatestRows(at_latest, latest_time) ==
    IF at_latest = <<>> THEN {[kind |-> "None"]}
    ELSE LET latest_data == DropDuplicates(at_latest, Team(at_latest))
             neutral == [k \in 1..Len(latest_data) |->
                           [ProjFinal |-> latest_data[k].FPTS,
                            WinProb |-> [wins |-> 0, sims |-> 1]] @@ latest_data[k]]
         IN IF ProbsRaises(latest_data) = "none"
            THEN {[kind |-> "data", time |-> latest_time, failed |-> FALSE,
                   rows |-> SortByProj(dfs_win_probs(latest_data, DefaultSigma2,
                                                     MaxSims, seed).rows),
                   columns |-> LoadedColumns \cup ProjectionColumns] :
                     seed \in default_rng(Null, Len(latest_data) * MaxSims)}
            ELSE {[kind |-> "data", time |-> latest_time, failed |-> TRUE,
                   rows |-> SortByProj(neutral),
                   columns |-> LoadedColumns \cup FallbackColumns]}

\* app.py:43-75: get_latest_data when every line of it reads the same frame:
\* None for an empty frame, else the rows at the latest timeindex through
\* lines 51-75; the set of the values it can return.
get_latest_data(data) ==
    IF data = <<>> THEN {[kind |-> "None"]}
    ELSE LatestRows(BooleanIndex(data, data, LatestTime(data)).rows, LatestTime(data))

\* app.py:241-326: update_content, the callback of the page, run over a
\* directory of example files: load_data(), then get_latest_data(); an
\* exception of load_data gives the error page.
update_content ==
    /\ pc = "dashboard"
    /\ \E dir \in Directory(files, examples) :
          LET loaded == load_data(dir)
          IN IF loaded.raised
             THEN /\ latest' = [kind |-> "error"]
                  /\ UNCHANGED standings_data
             ELSE /\ standings_data' = loaded.rows
                  /\ latest' \in get_latest_data(loaded.rows)
    /\ UNCHANGED <<scraperVars, viewTop, col, examples, cc, projVars>>

\* pd.to_numeric of one cell: the number a string spells, NaN for None.
to_numeric(c) ==
    IF c = PyNone THEN Null
    ELSE IF IsNum(c) \/ IsNaN(c) THEN c
    ELSE Some(c[2])

\* data_plotter.py:11-14: plot_standings assigns the numeric FPTS and PMR
\* columns to the frame it was given (the timeindex is a number already).
NumericColumns(frame) ==
    [k \in 1..Len(frame) |->
        [frame[k] EXCEPT !.FPTS = to_numeric(@), !.PMR = to_numeric(@)]]

\* app.py:77-86: create_plots: plot_standings(standings_data) on the shared
\* frame when it has rows; the figures are returned to the page.
create_plots ==
    /\ pc = "dashboard"
    /\ standings_data # <<>>
    /\ standings_data' = NumericColumns(standings_data)
    /\ UNCHANGED <<scraperVars, viewTop, col, examples, latest, cc, projVars>>

\* ----------- app.py: the scraper thread and the page callback, side by side
\* Example files with every cell written: such a directory always loads.
SharedFiles ==
    UNION {[1..n -> [Rank : {Some(1)}, TeamName : {Some(1), Some(2)},
                     PMR : {Some(2)}, FPTS : {Some(1)}]] : n \in 0..2}

\* app.py:28: what load_standings_directory can return, duplicates and all.
LoadedRows == {load_standings_directory(dir) : dir \in Directory(files, examples)}

\* app.py:31-34: if not standings_data.empty: standings_data =
\* standings_data.drop_duplicates(subset=['Team Name', 'timeindex']).
Deduplicated(rows) == DropDuplicates(rows, TeamAndTime(rows))

\* app.py:129, 28: load_data() in the scraper thread assigns the loaded frame
\* to the global; an exception goes to the except clause of the loop.
thread_load_assign ==
    /\ program = "shared"
    /\ cc.tpc = "idle"
    /\ cc.loads < MaxLoads
    /\ \E loaded \in LoadedRows :
          IF loaded.raised
          THEN /\ cc' = [cc EXCEPT !.loads = @ + 1]
               /\ UNCHANGED standings_data
          ELSE /\ cc' = [cc EXCEPT !.loads = @ + 1, !.tpc = "assigned"]
               /\ standings_data' = loaded.rows
    /\ UNCHANGED <<scraperVars, viewTop, col, examples, latest, projVars>>

\* app.py:31: if not standings_data.empty reads the global; an empty frame
\* goes to lines 39-41, where the thread's load_data() returns.
thread_load_empty ==
    /\ program = "shared"
    /\ cc.tpc = "assigned"
    /\ cc' = [cc EXCEPT !.tpc = IF standings_data = <<>> THEN "idle" ELSE "nonempty"]
    /\ UNCHANGED <<scraperVars, viewTop, col, examples, standings_data, latest, projVars>>

\* app.py:34, right-hand side: standings_data.drop_duplicates(...) reads the
\* global and makes the deduplicated copy, which the thread holds.
thread_load_dedupe ==
    /\ program = "shared"
    /\ cc.tpc = "nonempty"
    /\ cc' = [cc EXCEPT !.tpc = "deduped", !.tframe = Deduplicated(standings_data)]
    /\ UNCHANGED <<scraperVars, viewTop, col, examples, standings_data, latest, projVars>>

\* app.py:34-41: the assignment of line 34 stores the thread's copy in the
\* global, whatever the global holds by now, and load_data() returns.
thread_load_publish ==
    /\ program = "shared"
    /\ cc.tpc = "deduped"
    /\ cc' = [cc EXCEPT !.tpc = "idle", !.tframe = <<>>]
    /\ standings_data' = cc.tframe
    /\ UNCHANGED <<scraperVars, viewTop, col, examples, latest, projVars>>

\* app.py:245, 28: update_content calls load_data(), which assigns the loaded
\* frame; an exception gives the error page.
callback_load_assign ==
    /\ program = "shared"
    /\ cc.rpc = "idle"
    /\ \E loaded \in LoadedRows :
          IF loaded.raised
          THEN /\ cc' = [cc EXCEPT !.rpc = "done"]
               /\ latest' = [kind |-> "error"]
               /\ UNCHANGED standings_data
          ELSE /\ cc' = [cc EXCEPT !.rpc = "assigned"]
               /\ standings_data' = loaded.rows
               /\ UNCHANGED latest
    /\ UNCHANGED <<scraperVars, viewTop, col, examples, projVars>>

\* app.py:31: the callback's load_data() reads the global for its test of
\* empty; an empty frame goes to lines 39-41 and on to get_latest_data().
callback_load_empty ==
    /\ program = "shared"
    /\ cc.rpc = "assigned"
    /\ cc' = [cc EXCEPT !.rpc = IF standings_data = <<>> THEN "check" ELSE "nonempty"]
    /\ UNCHANGED <<scraperVars, viewTop, col, examples, standings_data, latest, projVars>>

\* app.py:34, right-hand side: the callback's load_data() reads the global and
\* makes the deduplicated copy.
callback_load_dedupe ==
    /\ program = "shared"
    /\ cc.rpc = "nonempty"
    /\ cc' = [cc EXCEPT !.rpc = "deduped", !.rframe = Deduplicated(standings_data)]
    /\ UNCHANGED <<scraperVars, viewTop, col, examples, standings_data, latest, projVars>>

\* app.py:34-41: the assignment of line 34 stores the callback's copy in the
\* global, whatever the global holds by now, and load_data() returns.
callback_load_publish ==
    /\ program = "shared"
    /\ cc.rpc = "deduped"
    /\ cc' = [cc EXCEPT !.rpc = "check", !.rframe = <<>>]
    /\ standings_data' = cc.rframe
    /\ UNCHANGED <<scraperVars, viewTop, col, examples, latest, projVars>>

\* app.py:248, 45-46: get_latest_data reads the global for its check of None
\* and empty.
callback_check ==
    /\ program = "shared"
    /\ cc.rpc = "check"
    /\ IF standings_data = <<>>
       THEN /\ cc' = [cc EXCEPT !.rpc = "done", !.reads = Append(@, standings_data)]
            /\ latest' = [kind |-> "None"]
       ELSE /\ cc' = [cc EXCEPT !.rpc = "max", !.reads = Append(@, standings_data)]
            /\ UNCHANGED latest
    /\ UNCHANGED <<scraperVars, viewTop, col, examples, standings_data, projVars>>

\* app.py:48: latest_time = standings_data['timeindex'].max() reads the global;
\* a frame without rows has no timeindex column, and the KeyError gives the
\* error page.
callback_max ==
    /\ program = "shared"
    /\ cc.rpc = "max"
    /\ IF standings_data = <<>>
       THEN /\ cc' = [cc EXCEPT !.rpc = "done", !.reads = Append(@, standings_data)]
            /\ latest' = [kind |-> "error"]
       ELSE /\ cc' = [cc EXCEPT !.rpc = "index", !.reads = Append(@, standings_data)]
            /\ UNCHANGED latest
    /\ UNCHANGED <<scraperVars, viewTop, col, examples, standings_data, projVars>>

\* app.py:49: standings_data[...]: the frame that will be indexed is read.
callback_index ==
    /\ program = "shared"
    /\ cc.rpc = "index"
    /\ cc' = [cc EXCEPT !.rpc = "mask", !.reads = Append(@, standings_data)]
    /\ UNCHANGED <<scraperVars, viewTop, col, examples, standings_data, latest, projVars>>

\* app.py:49-75: standings_data['timeindex'] == latest_time reads the global
\* for the mask (KeyError on a frame without rows) and compares it with the
\* latest_time of line 48; the frame read before is indexed with that mask,
\* aligned by label; an exception gives the error page, otherwise the rows
\* selected go through lines 51-75.
callback_mask ==
    /\ program = "shared"
    /\ cc.rpc = "mask"
    /\ cc' = [cc EXCEPT !.rpc = "done", !.reads = Append(@, standings_data)]
    /\ LET latest_time == LatestTime(cc.reads[2])
           latest_data == BooleanIndex(cc.reads[3], standings_data, latest_time)
       IN IF standings_data = <<>> \/ latest_data.raised
          THEN latest' = [kind |-> "error"]
          ELSE latest' \in LatestRows(latest_data.rows, latest_time)
    /\ UNCHANGED <<scraperVars, viewTop, col, examples, standings_data, projVars>>

shared_standings_data ==
    \/ thread_load_assign
    \/ thread_load_empty
    \/ thread_load_dedupe
    \/ thread_load_publish
    \/ callback_load_assign
    \/ callback_load_empty
    \/ callback_load_dedupe
    \/ callback_load_publish
    \/ callback_check
    \/ callback_max
    \/ callback_index
    \/ callback_mask

\* ------------------------------------------------------- calls and outcomes
\* A method returns value v to its caller.
Return(v) == mpc' = "idle" /\ ret' = v /\ lastErr' = lastErr /\ alive' = alive

\* A method raises an exception of one of the kinds; a fatal one is the browser
\* (or its page) having died, after which it stays dead.
Raises(kinds) ==
    \E k \in kinds :
        /\ mpc' = "idle"
        /\ ret' = "raise"
        /\ lastErr' = k
        /\ alive' = (alive /\ k # "fatal")

\* The ways a browser operation can raise.
PageOpRaises == Raises(IF alive THEN {"transient", "fatal"} ELSE {"fatal"})

\* The operation goes through and the method moves on to step next.
Proceed(next) == alive /\ mpc' = next /\ ret' = ret /\ lastErr' = lastErr /\ alive' = alive

Bump(rec, f) == [rec EXCEPT ![f] = @ + 1]

\* The locals of refresh_and_scrape are gone once it has returned or raised.
ClearLocals ==
    /\ previous_count' = 0
    /\ current_count' = 0
    /\ html_content' = <<>>
    /\ standings_df' = <<>>

\* ------------------------------------------- DraftKingsScraper.initialize
\* Mutant of initialize_start: no guard on self.browser, every call launches.
initialize_start_unguarded ==
    /\ mpc = "initialize"
    /\ \/ /\ mpc' = "init_launch" /\ ret' = ret /\ lastErr' = lastErr /\ alive' = alive
          /\ playwright' = "obj"
          /\ g' = Bump(Bump(g, "initCalls"), "starts")
       \/ /\ Raises({"transient"})
          /\ g' = Bump(g, "initCalls")
          /\ UNCHANGED playwright
    /\ UNCHANGED <<program, config, authFile, numTeams, viewTop, browser, context, page,
                   target_url, pc, i, locVars, files, appVars, h, col, pureVars>>

\* scraper.py:22-24: the guard on self.browser, then async_playwright().start().
initialize_start ==
    /\ mpc = "initialize"
    /\ \/ /\ browser # None
          /\ Return("True")
          /\ g' = Bump(g, "initCalls")
          /\ UNCHANGED playwright
       \/ /\ browser = None
          /\ Proceed("init_launch")
          /\ playwright' = "obj"
          /\ g' = Bump(Bump(g, "initCalls"), "starts")
       \/ /\ browser = None
          /\ Raises({"transient"})
          /\ g' = Bump(g, "initCalls")
          /\ UNCHANGED playwright
    /\ h' = [h EXCEPT !.initAuthAtStart = authFile, !.initLogin = FALSE]
    /\ UNCHANGED <<program, config, authFile, numTeams, viewTop, browser, context, page,
                   target_url, pc, i, locVars, files, appVars, col, pureVars>>

\* scraper.py:25: chromium.launch.
initialize_launch ==
    /\ mpc = "init_launch"
    /\ \/ /\ mpc' = "init_new_context" /\ ret' = ret /\ lastErr' = lastErr
          /\ alive' = TRUE
          /\ browser' = "obj"
          /\ g' = Bump(g, "launches")
       \/ /\ Raises({"transient"})
          /\ UNCHANGED <<browser, g>>
    /\ UNCHANGED <<program, config, authFile, numTeams, viewTop, playwright, context, page,
                   target_url, pc, i, locVars, files, appVars, h, col, pureVars>>

\* scraper.py:27-32: new_context, with the stored state when the file exists.
initialize_new_context ==
    /\ mpc = "init_new_context"
    /\ \/ /\ Proceed("init_new_page")
          /\ context' = "obj"
          /\ g' = Bump(g, "contexts")
          /\ h' = [h EXCEPT !.authLoaded = authFile]
       \/ /\ PageOpRaises
          /\ UNCHANGED <<context, g, h>>
    /\ UNCHANGED <<program, config, authFile, numTeams, viewTop, browser, playwright, page,
                   target_url, pc, i, locVars, files, appVars, col, pureVars>>

\* scraper.py:34: context.new_page.
initialize_new_page ==
    /\ mpc = "init_new_page"
    /\ \/ /\ Proceed("init_goto_home")
          /\ page' = "obj"
          /\ g' = Bump(g, "pages")
       \/ /\ PageOpRaises
          /\ UNCHANGED <<page, g>>
    /\ UNCHANGED <<program, config, authFile, numTeams, viewTop, browser, playwright, context,
                   target_url, pc, i, locVars, files, appVars, h, col, pureVars>>

\* scraper.py:35: page.goto of the home page.
initialize_goto_home ==
    /\ mpc = "init_goto_home"
    /\ \/ Proceed("init_login")
       \/ PageOpRaises
    /\ UNCHANGED <<program, config, authFile, numTeams, viewTop, objVars, pc, i, locVars,
                   files, appVars, g, h, col, pureVars>>

\* scraper.py:37-43: the interactive login and the write of the auth file,
\* when the file does not exist.
initialize_login ==
    /\ mpc = "init_login"
    /\ \/ /\ authFile
          /\ Proceed("init_read_config")
          /\ UNCHANGED <<authFile, g>>
       \/ /\ ~authFile
          /\ Proceed("init_read_config")
          /\ authFile' = TRUE
          /\ g' = Bump(Bump(g, "logins"), "authWrites")
       \/ /\ ~authFile
          /\ PageOpRaises
          /\ g' = Bump(g, "logins")
          /\ UNCHANGED authFile
    /\ h' = [h EXCEPT !.initLogin = ~authFile]
    /\ UNCHANGED <<program, config, numTeams, viewTop, objVars, pc, i, locVars, files,
                   appVars, col, pureVars>>

\* Mutant of initialize_read_config: a blank first line is not rejected.
initialize_read_config_keeps_blank ==
    /\ mpc = "init_read_config"
    /\ \/ /\ config = "missing"
          /\ Return("False")
          /\ UNCHANGED target_url
       \/ /\ config \in {"blank", "ok"}
          /\ mpc' = "init_goto_target" /\ ret' = ret /\ lastErr' = lastErr /\ alive' = alive
          /\ target_url' = IF config = "blank" THEN "" ELSE "url"
    /\ UNCHANGED <<program, config, authFile, numTeams, viewTop, browser, playwright, context,
                   page, pc, i, locVars, files, appVars, g, h, col, pureVars>>

\* scraper.py:45-54: the first line of example_contests.txt.
initialize_read_config ==
    /\ mpc = "init_read_config"
    /\ \/ /\ config = "missing"
          /\ Return("False")
          /\ UNCHANGED target_url
       \/ /\ config = "blank"
          /\ Return("False")
          /\ target_url' = ""
       \/ /\ config = "ok"
          /\ mpc' = "init_goto_target" /\ ret' = ret /\ lastErr' = lastErr /\ alive' = alive
          /\ target_url' = "url"
    /\ UNCHANGED <<program, config, authFile, numTeams, viewTop, browser, playwright, context,
                   page, pc, i, locVars, files, appVars, g, h, col, pureVars>>

\* scraper.py:57: page.goto(self.target_url).
initialize_goto_target ==
    /\ mpc = "init_goto_target"
    /\ \/ Proceed("init_wait_load") /\ viewTop' = 0
       \/ PageOpRaises /\ UNCHANGED viewTop
    /\ UNCHANGED <<program, config, authFile, numTeams, objVars, pc, i, locVars, files,
                   appVars, g, h, col, pureVars>>

\* scraper.py:61: wait_for_timeout(10000).
initialize_wait_load ==
    /\ mpc = "init_wait_load"
    /\ \/ Proceed("init_wait_selector")
       \/ PageOpRaises
    /\ UNCHANGED <<program, config, authFile, numTeams, viewTop, objVars, pc, i, locVars,
                   files, appVars, g, h, col, pureVars>>

\* scraper.py:64-67: wait_for_selector of the standings table, then return True.
initialize_wait_selector ==
    /\ mpc = "init_wait_selector"
    /\ \/ alive /\ Return("True") /\ h' = [h EXCEPT !.tableFound = TRUE]
       \/ PageOpRaises /\ UNCHANGED h
    /\ UNCHANGED <<program, config, authFile, numTeams, viewTop, objVars, pc, i, locVars,
                   files, appVars, g, col, pureVars>>

initialize ==
    \/ initialize_start
    \/ initialize_launch
    \/ initialize_new_context
    \/ initialize_new_page
    \/ initialize_goto_home
    \/ initialize_login
    \/ initialize_read_config
    \/ initialize_goto_target
    \/ initialize_wait_load
    \/ initialize_wait_selector

\* ------------------------------------ DraftKingsScraper.refresh_and_scrape
\* Mutant of refresh_start: no guard on self.page, the reload is always tried.
refresh_start_unguarded ==
    /\ mpc = "refresh_and_scrape"
    /\ g' = Bump(g, "refreshCalls")
    /\ h' = [h EXCEPT !.filesAtPollStart = Len(files), !.stabilized = FALSE, !.iters = 0,
                      !.polling = TRUE, !.wrote = FALSE, !.raisedInSave = FALSE]
    /\ \/ /\ Proceed("rs_wait_load")
          /\ viewTop' = 0
       \/ /\ PageOpRaises
          /\ UNCHANGED viewTop
    /\ UNCHANGED <<program, config, authFile, numTeams, objVars, pc, i, locVars, files,
                   appVars, col, pureVars>>

\* scraper.py:71-76: the guard on self.page, then page.reload.
refresh_start ==
    /\ mpc = "refresh_and_scrape"
    /\ g' = Bump(g, "refreshCalls")
    /\ h' = [h EXCEPT !.filesAtPollStart = Len(files), !.stabilized = FALSE, !.iters = 0,
                      !.polling = TRUE, !.wrote = FALSE, !.raisedInSave = FALSE]
    /\ \/ /\ page = None
          /\ Return("None")
          /\ UNCHANGED viewTop
       \/ /\ page # None
          /\ Proceed("rs_wait_load")
          /\ viewTop' = 0
       \/ /\ page # None
          /\ PageOpRaises
          /\ UNCHANGED viewTop
    /\ UNCHANGED <<program, config, authFile, numTeams, objVars, pc, i, locVars, files,
                   appVars, col, pureVars>>

\* scraper.py:80: wait_for_timeout(10000).
refresh_wait_load ==
    /\ mpc = "rs_wait_load"
    /\ \/ Proceed("rs_wait_selector")
       \/ PageOpRaises
    /\ UNCHANGED <<program, config, authFile, numTeams, viewTop, objVars, pc, i, locVars,
                   files, appVars, g, h, col, pureVars>>

\* scraper.py:83-89: wait_for_selector of the table, then previous_count = 0.
refresh_wait_selector ==
    /\ mpc = "rs_wait_selector"
    /\ \/ Proceed("rs_count") /\ previous_count' = 0
       \/ PageOpRaises /\ previous_count' = 0
    /\ UNCHANGED <<program, config, authFile, numTeams, viewTop, objVars, pc, i,
                   current_count, html_content, standings_df, files, appVars, g, h, col, pureVars>>

\* scraper.py:91-95: one pass of the while loop up to the scroll: count the
\* mounted rows, break when the count equals previous_count.
refresh_count ==
    /\ mpc = "rs_count"
    /\ \/ /\ \E n \in MountedCounts :
               /\ current_count' = n
               /\ IF n = previous_count
                  THEN /\ Proceed("rs_content")
                       /\ h' = [h EXCEPT !.stabilized = TRUE, !.iters = 0]
                       /\ UNCHANGED previous_count
                  ELSE /\ h.iters < MaxScrollIters
                       /\ Proceed("rs_scroll")
                       /\ previous_count' = n
                       /\ h' = Bump(h, "iters")
          /\ UNCHANGED <<html_content, standings_df>>
       \/ PageOpRaises /\ ClearLocals /\ h' = [h EXCEPT !.iters = 0]
    /\ UNCHANGED <<program, config, authFile, numTeams, viewTop, objVars, pc, i, files,
                   appVars, g, col, pureVars>>

\* scraper.py:98: rows_locator.last.scroll_into_view_if_needed().
refresh_scroll ==
    /\ mpc = "rs_scroll"
    /\ \/ /\ Proceed("rs_settle")
          /\ \E t \in ScrollTargets(viewTop + current_count) : viewTop' = t
          /\ UNCHANGED <<locVars, h>>
       \/ PageOpRaises /\ ClearLocals /\ h' = [h EXCEPT !.iters = 0] /\ UNCHANGED viewTop
    /\ UNCHANGED <<program, config, authFile, numTeams, objVars, pc, i, files, appVars,
                   g, col, pureVars>>

\* scraper.py:99: wait_for_timeout(500), then back to the top of the loop.
refresh_settle ==
    /\ mpc = "rs_settle"
    /\ \/ Proceed("rs_count") /\ UNCHANGED <<locVars, h>>
       \/ PageOpRaises /\ ClearLocals /\ h' = [h EXCEPT !.iters = 0]
    /\ UNCHANGED <<program, config, authFile, numTeams, viewTop, objVars, pc, i, files,
                   appVars, g, col, pureVars>>

\* scraper.py:105: page.content(): the markup of the rows mounted now, those
\* the last count() of the loop counted.
refresh_content ==
    /\ mpc = "rs_content"
    /\ \/ /\ Proceed("rs_parse")
          /\ html_content' = MountedRows(viewTop, current_count)
          /\ UNCHANGED <<previous_count, current_count, standings_df>>
       \/ PageOpRaises /\ ClearLocals
    /\ UNCHANGED <<program, config, authFile, numTeams, viewTop, objVars, pc, i, files,
                   appVars, g, h, col, pureVars>>

\* Mutant of refresh_parse: when the parser raises, an empty frame is saved
\* before the exception leaves the method.
refresh_parse_saves_on_error ==
    /\ mpc = "rs_parse"
    /\ \/ /\ mpc' = "rs_save" /\ ret' = ret /\ lastErr' = lastErr /\ alive' = alive
          /\ standings_df' = parse_dk_standings(html_content)
          /\ UNCHANGED <<previous_count, current_count, html_content, files, h>>
       \/ /\ Raises({"transient"}) /\ ClearLocals
          /\ files' = Append(files, <<>>)
          /\ h' = [h EXCEPT !.wrote = TRUE]
    /\ UNCHANGED <<program, config, authFile, numTeams, viewTop, objVars, pc, i, appVars,
                   g, col, pureVars>>

\* scraper.py:108: parse_dk_standings(html_content); the parser may raise.
refresh_parse ==
    /\ mpc = "rs_parse"
    /\ \/ /\ mpc' = "rs_save" /\ ret' = ret /\ lastErr' = lastErr /\ alive' = alive
          /\ standings_df' = parse_dk_standings(html_content)
          /\ UNCHANGED <<previous_count, current_count, html_content>>
       \/ Raises({"transient"}) /\ ClearLocals
    /\ UNCHANGED <<program, config, authFile, numTeams, viewTop, objVars, pc, i, files,
                   appVars, g, h, col, pureVars>>

\* scraper.py:114-118: to_csv under a name stamped with the second of the
\* local clock: a new file, or the file of that name already there (a poll
\* stamped with the same second), which is overwritten.
Written(snapshots, frame) ==
    {Append(snapshots, frame)}
    \cup {[snapshots EXCEPT ![k] = frame] : k \in 1..Len(snapshots)}

\* scraper.py:111-127: makedirs, the timestamped file name and to_csv, which
\* may raise and write nothing; then the summary prints, which may raise with
\* the file on disk (print(standings_df.head()) on a stream that cannot encode
\* a team name); then return.
refresh_save ==
    /\ mpc = "rs_save"
    /\ \/ /\ Raises({"transient"})
          /\ UNCHANGED files
          /\ h' = [h EXCEPT !.raisedInSave = TRUE]
       \/ /\ files' \in Written(files, standings_df)
          /\ \/ Return("df") /\ h' = [h EXCEPT !.wrote = TRUE]
             \/ /\ Raises({"transient"})
                /\ h' = [h EXCEPT !.wrote = TRUE, !.raisedInSave = TRUE]
    /\ ClearLocals
    /\ UNCHANGED <<program, config, authFile, numTeams, viewTop, objVars, pc, i, appVars,
                   g, col, pureVars>>

refresh_and_scrape ==
    \/ refresh_start
    \/ refresh_wait_load
    \/ refresh_wait_selector
    \/ refresh_count
    \/ refresh_scroll
    \/ refresh_settle
    \/ refresh_content
    \/ refresh_parse
    \/ refresh_save

\* ------------------------------------------------ DraftKingsScraper.close
\* scraper.py:131-132: the guard on self.browser, then browser.close(), which
\* also goes through when the browser is already gone.
close_start ==
    /\ mpc = "close"
    /\ \/ /\ browser = None
          /\ Return("None")
          /\ g' = Bump(g, "closeCalls")
       \/ /\ browser # None
          /\ mpc' = "close_stop" /\ ret' = ret /\ lastErr' = lastErr
          /\ alive' = FALSE
          /\ g' = Bump(Bump(g, "closeCalls"), "browserCloses")
       \/ /\ browser # None
          /\ Raises({"transient"})
          /\ g' = Bump(Bump(g, "closeCalls"), "browserCloses")
    /\ UNCHANGED <<program, config, authFile, numTeams, viewTop, objVars, pc, i, locVars,
                   files, appVars, h, col, pureVars>>

\* scraper.py:133-134: playwright.stop().
close_stop ==
    /\ mpc = "close_stop"
    /\ g' = Bump(g, "playwrightStops")
    /\ \/ Return("None")
       \/ Raises({"transient"})
    /\ UNCHANGED <<program, config, authFile, numTeams, viewTop, objVars, pc, i, locVars,
                   files, appVars, h, col, pureVars>>

close ==
    \/ close_start
    \/ close_stop

\* ---------------------------------------------------------- history helpers
\* A time.sleep(1) or an asyncio.sleep tick begins.
SleepStarts(hh) == IF hh.stopPhase = "sleep" THEN Bump(hh, "sleepsAfterStop") ELSE hh

\* One second of sleep has passed.
SleepEnds(hh) == IF hh.failPending THEN Bump(hh, "ticksSinceFail") ELSE hh

\* The loop itself reloads the page.
ReloadStarts(hh) ==
    LET a == IF hh.failPending THEN Bump(hh, "reloadsSinceFail") ELSE hh
    IN  IF a.stopPhase # "none" THEN Bump(a, "opsAfterStop") ELSE a

\* A poll loop calls refresh_and_scrape.
PollStarts(hh) ==
    LET a == IF hh.failPending
             THEN [hh EXCEPT !.failPending = FALSE, !.retrySeen = TRUE,
                             !.retryTicks = hh.ticksSinceFail,
                             !.retryReloads = hh.reloadsSinceFail]
             ELSE hh
        b == IF a.fatalInPoll THEN Bump(a, "pollsAfterFatal") ELSE a
    IN  IF b.stopPhase # "none"
        THEN Bump(Bump(b, "pollsAfterStop"), "opsAfterStop")
        ELSE b

\* refresh_and_scrape raised inside a poll loop.
PollFails(hh) ==
    [hh EXCEPT !.failPending = TRUE, !.ticksSinceFail = 0, !.reloadsSinceFail = 0,
               !.fatalInPoll = @ \/ lastErr = "fatal"]

\* A poll loop has handled the outcome of refresh_and_scrape.
PollEnds(hh) ==
    [hh EXCEPT !.stabilized = FALSE, !.filesAtPollStart = Len(files), !.polling = FALSE,
               !.wrote = FALSE, !.raisedInSave = FALSE]

\* The phases in which a poll loop sleeps.
SleepPhases ==
    {"t_sleep", "t_sleep_in", "t_settle", "t_settle_in", "t_backoff", "t_backoff_in",
     "s_sleep", "s_settle"}

\* A stop is requested: remember the phase the loop was in at the first request.
StopRequested(hh) ==
    IF hh.stopPhase # "none" THEN hh
    ELSE [hh EXCEPT !.stopPhase = IF pc \in SleepPhases THEN "sleep"
                                  ELSE IF pc = "t_call" THEN "call"
                                  ELSE IF pc = "t_reload" THEN "reload"
                                  ELSE "other"]

\* A fresh DraftKingsScraper(): scraper.py:14-18.
NewScraper ==
    /\ browser' = None
    /\ context' = None
    /\ page' = None
    /\ target_url' = None
    /\ playwright' = None

\* --------------------------------------------------------- app.py: the app
\* Mutant of start_scraper: only the running flag guards the start, so a start
\* after a stop creates a second thread while the first is still in its loop.
start_scraper_flag_only ==
    /\ program = "app"
    /\ IF scraper_running
       THEN /\ h' = [h EXCEPT !.startRefused = TRUE]
            /\ UNCHANGED <<pc, scraper_running, scraper_initialized, g>>
       ELSE /\ scraper_running' = TRUE
            /\ scraper_initialized' = TRUE
            /\ pc' = "t_begin"
            /\ g' = Bump(g, "threadStarts")
            /\ h' = h
    /\ UNCHANGED <<program, envVars, objVars, mpc, ret, lastErr, i, locVars, files,
                   scraper, col, pureVars>>

\* app.py:95-109, 168-170: start_scraper; it starts the thread at most once.
start_scraper ==
    /\ program = "app"
    /\ IF scraper_initialized \/ scraper_running \/ pc \notin {"t_not_started", "t_done"}
       THEN /\ h' = [h EXCEPT !.startRefused = TRUE]
            /\ UNCHANGED <<pc, scraper_running, scraper_initialized, g>>
       ELSE /\ scraper_running' = TRUE
            /\ scraper_initialized' = TRUE
            /\ pc' = "t_begin"
            /\ g' = Bump(g, "threadStarts")
            /\ h' = h
    /\ UNCHANGED <<program, envVars, objVars, mpc, ret, lastErr, i, locVars, files,
                   scraper, col, pureVars>>

\* app.py:172-178: stop_scraper clears the running flag.
stop_scraper ==
    /\ program = "app"
    /\ scraper_running' = FALSE
    /\ h' = IF scraper_running THEN StopRequested(h) ELSE h
    /\ UNCHANGED <<program, envVars, objVars, pc, mpc, ret, lastErr, i, locVars, files,
                   scraper, scraper_initialized, g, col, pureVars>>

\* app.py:115-120: the thread creates the scraper and calls initialize().
thread_begin ==
    /\ pc = "t_begin"
    /\ scraper' = "obj"
    /\ NewScraper
    /\ pc' = "t_init"
    /\ mpc' = "initialize"
    /\ UNCHANGED <<program, envVars, ret, lastErr, i, locVars, files, scraper_running,
                   scraper_initialized, g, h, col, pureVars>>

\* app.py:120-123, 154-158: the result of initialize(): True enters the loop,
\* False or an exception goes to the finally block.
thread_initialized ==
    /\ pc = "t_init"
    /\ mpc = "idle"
    /\ IF ret = "True"
       THEN pc' = "t_while" /\ h' = [h EXCEPT !.loopEntered = TRUE]
       ELSE pc' = "t_finally" /\ h' = h
    /\ ret' = "none"
    /\ lastErr' = "none"
    /\ UNCHANGED <<program, envVars, objVars, mpc, i, locVars, files, appVars, g, col, pureVars>>

\* Mutant of thread_while: the loop goes on whatever scraper_running is.
thread_while_ignores_stop ==
    /\ pc = "t_while"
    /\ g.refreshCalls < MaxPolls
    /\ pc' = "t_call"
    /\ UNCHANGED <<program, envVars, objVars, mpc, ret, lastErr, i, locVars, files, appVars,
                   g, h, col, pureVars>>

\* app.py:123: while scraper_running: the test of the flag, read once per pass.
thread_while ==
    /\ pc = "t_while"
    /\ IF scraper_running
       THEN /\ g.refreshCalls < MaxPolls
            /\ pc' = "t_call"
       ELSE pc' = "t_finally"
    /\ UNCHANGED <<program, envVars, objVars, mpc, ret, lastErr, i, locVars, files, appVars,
                   g, h, col, pureVars>>

\* app.py:124-126: the body of the loop calls refresh_and_scrape(); the flag
\* is not read again before the call.
thread_call ==
    /\ pc = "t_call"
    /\ pc' = "t_poll"
    /\ mpc' = "refresh_and_scrape"
    /\ h' = PollStarts(h)
    /\ UNCHANGED <<program, envVars, objVars, ret, lastErr, i, locVars, files, appVars,
                   g, col, pureVars>>

\* app.py:126, 148-150: the poll returned, or raised into the except clause.
thread_polled ==
    /\ pc = "t_poll"
    /\ mpc = "idle"
    /\ IF ret = "raise"
       THEN pc' = "t_backoff" /\ h' = PollEnds(PollFails(h))
       ELSE pc' = "t_load_data" /\ h' = PollEnds(h)
    /\ i' = 0
    /\ ret' = "none"
    /\ lastErr' = "none"
    /\ UNCHANGED <<program, envVars, objVars, mpc, locVars, files, appVars, g, col, pureVars>>

\* app.py:129: load_data(); an exception of it is caught like one of the poll.
thread_load_data ==
    /\ pc = "t_load_data"
    /\ \E dir \in Directory(files, examples) :
          LET loaded == load_data(dir)
          IN \/ /\ ~loaded.raised
                /\ pc' = "t_sleep"
                /\ standings_data' = loaded.rows
             \/ /\ pc' = "t_backoff"
                /\ UNCHANGED standings_data
    /\ i' = 0
    /\ UNCHANGED <<program, envVars, objVars, mpc, ret, lastErr, locVars, files, appVars,
                   g, h, col, examples, latest, cc, projVars>>

\* One check of a cancellation-checked sleep loop:
\*   for _ in range(limit): if not scraper_running: break; time.sleep(1)
TickCheck(phase, sleeping, limit, after) ==
    /\ pc = phase
    /\ IF i < limit /\ scraper_running
       THEN pc' = sleeping /\ h' = SleepStarts(h) /\ i' = i
       ELSE pc' = after /\ h' = h /\ i' = 0
    /\ UNCHANGED <<program, envVars, objVars, mpc, ret, lastErr, locVars, files, appVars,
                   g, col, pureVars>>

\* time.sleep(1) returns.
TickSleep(phase, sleeping) ==
    /\ pc = sleeping
    /\ pc' = phase
    /\ i' = i + 1
    /\ h' = SleepEnds(h)
    /\ UNCHANGED <<program, envVars, objVars, mpc, ret, lastErr, locVars, files, appVars,
                   g, col, pureVars>>

\* app.py:133-136: the 45 s sleep.
thread_sleep_check == TickCheck("t_sleep", "t_sleep_in", SleepTicks, "t_after_sleep")

thread_sleep_tick == TickSleep("t_sleep", "t_sleep_in")

\* app.py:138-139: after the sleep, leave the loop when stopped; else go on
\* to the reload.
thread_after_sleep ==
    /\ pc = "t_after_sleep"
    /\ pc' = IF scraper_running THEN "t_reload" ELSE "t_finally"
    /\ UNCHANGED <<program, envVars, objVars, mpc, ret, lastErr, i, locVars, files, appVars,
                   g, h, col, pureVars>>

\* app.py:142: reload the page, whatever scraper_running has become since the
\* test of line 138; an exception of the reload is caught by the except clause.
thread_reload ==
    /\ pc = "t_reload"
    /\ g' = Bump(g, "reloads")
    /\ h' = ReloadStarts(h)
    /\ i' = 0
    /\ \/ alive /\ pc' = "t_settle" /\ viewTop' = 0 /\ UNCHANGED alive
       \/ /\ pc' = "t_backoff"
          /\ alive' \in (IF alive THEN {TRUE, FALSE} ELSE {FALSE})
          /\ UNCHANGED viewTop
    /\ UNCHANGED <<program, config, authFile, numTeams, objVars, mpc, ret, lastErr, locVars,
                   files, appVars, col, pureVars>>

\* app.py:143-146: the 15 s settle sleep.
thread_settle_check == TickCheck("t_settle", "t_settle_in", SettleTicks, "t_while")

thread_settle_tick == TickSleep("t_settle", "t_settle_in")

\* Mutant of thread_backoff_check: the backoff sleeps without looking at
\* scraper_running.
thread_backoff_check_blind ==
    /\ pc = "t_backoff"
    /\ IF i < BackoffTicks
       THEN pc' = "t_backoff_in" /\ h' = SleepStarts(h) /\ i' = i
       ELSE pc' = "t_while" /\ h' = h /\ i' = 0
    /\ UNCHANGED <<program, envVars, objVars, mpc, ret, lastErr, locVars, files, appVars,
                   g, col, pureVars>>

\* app.py:150-153: the 60 s backoff.
thread_backoff_check == TickCheck("t_backoff", "t_backoff_in", BackoffTicks, "t_while")

thread_backoff_tick == TickSleep("t_backoff", "t_backoff_in")

\* app.py:159-162: finally: if scraper: close().
thread_finally ==
    /\ pc = "t_finally"
    /\ IF scraper # None
       THEN pc' = "t_close" /\ mpc' = "close"
       ELSE pc' = "t_exit" /\ mpc' = mpc
    /\ UNCHANGED <<program, envVars, objVars, ret, lastErr, i, locVars, files, appVars,
                   g, h, col, pureVars>>

\* app.py:163-166: an exception of close() is swallowed; scraper_running = False.
thread_exit ==
    /\ pc \in {"t_close", "t_exit"}
    /\ mpc = "idle"
    /\ pc' = "t_done"
    /\ scraper_running' = FALSE
    /\ g' = Bump(g, "threadExits")
    /\ UNCHANGED <<program, envVars, objVars, mpc, ret, lastErr, i, locVars, files,
                   scraper, scraper_initialized, h, col, pureVars>>

run_scraper_loop ==
    \/ thread_begin
    \/ thread_initialized
    \/ thread_while
    \/ thread_call
    \/ thread_polled
    \/ thread_load_data
    \/ thread_sleep_check
    \/ thread_sleep_tick
    \/ thread_after_sleep
    \/ thread_reload
    \/ thread_settle_check
    \/ thread_settle_tick
    \/ thread_backoff_check
    \/ thread_backoff_tick
    \/ thread_finally
    \/ thread_exit

\* ------------------------------------------------ scheduler.py: scheduler
\* scheduler.py:23-26: create the scraper and call initialize().
scheduler_begin ==
    /\ pc = "s_begin"
    /\ NewScraper
    /\ pc' = "s_init"
    /\ mpc' = "initialize"
    /\ UNCHANGED <<program, envVars, ret, lastErr, i, locVars, files, appVars, g, h, col, pureVars>>

\* scheduler.py:26-30, 54-55: False returns, an exception is logged as fatal;
\* both reach the finally block. True enters the loop.
scheduler_initialized ==
    /\ pc = "s_init"
    /\ mpc = "idle"
    /\ IF ret = "True"
       THEN pc' = "s_loop" /\ h' = [h EXCEPT !.loopEntered = TRUE]
       ELSE pc' = "s_finally" /\ h' = h
    /\ ret' = "none"
    /\ lastErr' = "none"
    /\ UNCHANGED <<program, envVars, objVars, mpc, i, locVars, files, appVars, g, col, pureVars>>

\* scheduler.py:32-35: while True: refresh_and_scrape().
scheduler_loop ==
    /\ pc = "s_loop"
    /\ g.refreshCalls < MaxPolls
    /\ pc' = "s_poll"
    /\ mpc' = "refresh_and_scrape"
    /\ h' = PollStarts(h)
    /\ UNCHANGED <<program, envVars, objVars, ret, lastErr, i, locVars, files, appVars,
                   g, col, pureVars>>

\* scheduler.py:36-42: the poll returned or its exception was logged; either
\* way the 45 s sleep follows.
scheduler_polled ==
    /\ pc = "s_poll"
    /\ mpc = "idle"
    /\ pc' = "s_sleep"
    /\ i' = 0
    /\ h' = PollEnds(IF ret = "raise" THEN PollFails(h) ELSE h)
    /\ ret' = "none"
    /\ lastErr' = "none"
    /\ UNCHANGED <<program, envVars, objVars, mpc, locVars, files, appVars, g, col, pureVars>>

\* One second of an asyncio.sleep(limit) passes.
SleepTick(phase, limit) ==
    /\ pc = phase
    /\ i < limit
    /\ i' = i + 1
    /\ h' = SleepEnds(SleepStarts(h))
    /\ UNCHANGED <<program, envVars, objVars, pc, mpc, ret, lastErr, locVars, files,
                   appVars, g, col, pureVars>>

\* scheduler.py:42: asyncio.sleep(45).
scheduler_sleep_tick == SleepTick("s_sleep", SleepTicks)

\* scheduler.py:46-50: page.reload(); an exception of it is logged and the
\* settle sleep skipped.
scheduler_reload ==
    /\ pc = "s_sleep"
    /\ i = SleepTicks
    /\ g' = Bump(g, "reloads")
    /\ h' = ReloadStarts(h)
    /\ i' = 0
    /\ \/ alive /\ pc' = "s_settle" /\ viewTop' = 0 /\ UNCHANGED alive
       \/ /\ pc' = "s_loop"
          /\ alive' \in (IF alive THEN {TRUE, FALSE} ELSE {FALSE})
          /\ UNCHANGED viewTop
    /\ UNCHANGED <<program, config, authFile, numTeams, objVars, mpc, ret, lastErr, locVars,
                   files, appVars, col, pureVars>>

\* scheduler.py:48: asyncio.sleep(15).
scheduler_settle_tick == SleepTick("s_settle", SettleTicks)

scheduler_settled ==
    /\ pc = "s_settle"
    /\ i = SettleTicks
    /\ pc' = "s_loop"
    /\ i' = 0
    /\ UNCHANGED <<program, envVars, objVars, mpc, ret, lastErr, locVars, files, appVars,
                   g, h, col, pureVars>>

\* scheduler.py:52-53, 62-65: the user interrupts the scheduler: the pending
\* await is abandoned and control reaches the finally block.
scheduler_interrupt ==
    /\ pc \in {"s_init", "s_loop", "s_poll", "s_sleep", "s_settle"}
    /\ pc' = "s_finally"
    /\ mpc' = "idle"
    /\ ret' = "none"
    /\ lastErr' = "none"
    /\ i' = 0
    /\ ClearLocals
    /\ h' = PollEnds([StopRequested(h) EXCEPT !.iters = 0])
    /\ UNCHANGED <<program, envVars, objVars, files, appVars, g, col, pureVars>>

\* scheduler.py:56-58: finally: close().
scheduler_finally ==
    /\ pc = "s_finally"
    /\ pc' = "s_close"
    /\ mpc' = "close"
    /\ UNCHANGED <<program, envVars, objVars, ret, lastErr, i, locVars, files, appVars,
                   g, h, col, pureVars>>

\* scheduler.py:59: the scheduler has shut down.
scheduler_exit ==
    /\ pc = "s_close"
    /\ mpc = "idle"
    /\ pc' = "s_done"
    /\ UNCHANGED <<program, envVars, objVars, mpc, ret, lastErr, i, locVars, files,
                   appVars, g, h, col, pureVars>>

scheduler ==
    \/ scheduler_begin
    \/ scheduler_initialized
    \/ scheduler_loop
    \/ scheduler_polled
    \/ scheduler_sleep_tick
    \/ scheduler_reload
    \/ scheduler_settle_tick
    \/ scheduler_settled
    \/ scheduler_interrupt
    \/ scheduler_finally
    \/ scheduler_exit

\* ------------------------------- scraper.py: the one-shot scrape_standings
\* scraper.py:139-141: create the scraper and call initialize().
legacy_begin ==
    /\ pc = "l_begin"
    /\ NewScraper
    /\ pc' = "l_init"
    /\ mpc' = "initialize"
    /\ UNCHANGED <<program, envVars, ret, lastErr, i, locVars, files, appVars, g, h, col, pureVars>>

\* scraper.py:141-142: refresh_and_scrape() when initialize() returned True.
legacy_initialized ==
    /\ pc = "l_init"
    /\ mpc = "idle"
    /\ IF ret = "True"
       THEN pc' = "l_poll" /\ mpc' = "refresh_and_scrape"
       ELSE pc' = "l_finally" /\ mpc' = mpc
    /\ UNCHANGED <<program, envVars, objVars, ret, lastErr, i, locVars, files, appVars,
                   g, h, col, pureVars>>

\* scraper.py:143-144: finally: close(), after the poll or instead of it.
legacy_finally ==
    /\ pc \in {"l_finally", "l_poll"}
    /\ mpc = "idle"
    /\ pc' = "l_close"
    /\ mpc' = "close"
    /\ h' = PollEnds(h)
    /\ UNCHANGED <<program, envVars, objVars, ret, lastErr, i, locVars, files, appVars,
                   g, col, pureVars>>

legacy_exit ==
    /\ pc = "l_close"
    /\ mpc = "idle"
    /\ pc' = "l_done"
    /\ UNCHANGED <<program, envVars, objVars, mpc, ret, lastErr, i, locVars, files,
                   appVars, g, h, col, pureVars>>

scrape_standings_legacy ==
    \/ legacy_begin
    \/ legacy_initialized
    \/ legacy_finally
    \/ legacy_exit

\* ------------------------------------ any caller of one DraftKingsScraper
\* A caller invokes the methods of one instance in any order.
client_call ==
    /\ pc = "client"
    /\ mpc = "idle"
    /\ g.calls < MaxCalls
    /\ g' = Bump(g, "calls")
    /\ \E m \in {"initialize", "refresh_and_scrape", "close"} : mpc' = m
    /\ ret' = "none"
    /\ lastErr' = "none"
    /\ h' = PollEnds(h)
    /\ UNCHANGED <<program, envVars, objVars, pc, i, locVars, files, appVars, col, pureVars>>

\* ------------------- data_downloader/scraper.py: scrape_standings(page)
\* Values the points cell of a row can show when it is read.
PointValues == {0, 1}

\* The username in the aria-label of the row of team t; with multi-entry
\* contests two teams of one user carry the same label.
UserOf(t) == IF col.multi THEN (t + 1) \div 2 ELSE t

\* Everything but the collector's own state and the view it scrolls.
sessionVars == <<scraperVars, pureVars>>

\* The text of a cell that int() or float() does not parse.
Unparsable == -1

\* Mutant of Unseen: every labelled row counts as a user not seen yet.
Unseen_Always(c, u) == TRUE

\* data_downloader/scraper.py:29: if username not in seen_users.
Unseen(c, u) == u \notin c.seen_users

\* The team in the row that rows_locator.nth(k) resolves to now.
TeamAt(k) == viewTop + k + 1

\* The list can have one row less mounted than when it was counted: a read of
\* the row at the edge then finds no element, waits and times out.
RowCanBeGone(k) == \E n \in MountedCounts : k >= n

\* The page of the headful browser moves under the collector: the list shows
\* another window of the leaderboard at the next read.
page_moves ==
    /\ pc = "m_scrape"
    /\ col.pc \in {"count", "row", "rank", "points", "scroll", "settle"}
    /\ col.moves < MaxMoves
    /\ \E t \in 0..(IF numTeams > WindowSize THEN numTeams - WindowSize ELSE 0) :
          /\ t # viewTop
          /\ viewTop' = t
    /\ col' = [col EXCEPT !.moves = @ + 1]
    /\ UNCHANGED sessionVars

\* data_downloader/scraper.py:18: current_rows_count = await rows_locator.count().
collector_count ==
    /\ col.pc = "count"
    /\ \E n \in MountedCounts :
          col' = [col EXCEPT !.pc = "row", !.current_rows_count = n, !.k = 0]
    /\ UNCHANGED <<sessionVars, viewTop>>

\* data_downloader/scraper.py:19-30: the next row of the for loop: await
\* row.get_attribute('aria-label'); a row without the label is skipped, and so
\* is the row of a user seen before; a user not seen yet is marked seen and the
\* coroutine goes on to read the row's cells.
collector_label ==
    /\ col.pc = "row"
    /\ col.k < col.current_rows_count
    /\ LET u == UserOf(TeamAt(col.k))
           known == \E j \in 1..Len(col.order) : col.order[j] = u
           read == [col EXCEPT !.username = u,
                               !.rereads = @ \/ known,
                               !.order = IF known THEN @ ELSE Append(@, u)]
       IN  \/ col' = [col EXCEPT !.k = @ + 1]
           \/ IF Unseen(col, u)
              THEN col' = [read EXCEPT !.pc = "rank", !.seen_users = @ \cup {u}]
              ELSE col' = [read EXCEPT !.k = @ + 1]
           \/ /\ RowCanBeGone(col.k)
              /\ col' = [col EXCEPT !.pc = "raised", !.err = "TimeoutError"]
    /\ UNCHANGED <<sessionVars, viewTop>>

\* data_downloader/scraper.py:32: await inner_text() of the rank cell of the
\* row that is at this index now.
collector_rank ==
    /\ col.pc = "rank"
    /\ \/ \E text \in {TeamAt(col.k), Unparsable} :
             col' = [col EXCEPT !.pc = "points", !.rank_text = Some(text)]
       \/ /\ RowCanBeGone(col.k)
          /\ col' = [col EXCEPT !.pc = "raised", !.err = "TimeoutError"]
    /\ UNCHANGED <<sessionVars, viewTop>>

\* data_downloader/scraper.py:33-39: await inner_text() of the points cell,
\* then the row is appended; int() or float() of a text that does not parse
\* raises ValueError, the user being marked seen already.
collector_points ==
    /\ col.pc = "points"
    /\ \/ \E text \in PointValues \cup {Unparsable} :
             LET got == [col EXCEPT !.points_text = Some(text)]
                 v == [rank |-> col.rank_text[1], points |-> text]
             IN  IF col.rank_text[1] = Unparsable \/ text = Unparsable
                 THEN col' = [got EXCEPT !.pc = "raised", !.err = "ValueError"]
                 ELSE col' = [got EXCEPT
                                 !.pc = "row", !.k = @ + 1,
                                 !.first[col.username] = IF @ = Null THEN Some(v) ELSE @,
                                 !.standings_data =
                                     Append(@, [username |-> col.username,
                                                rank |-> v.rank, points |-> v.points])]
       \/ /\ RowCanBeGone(col.k)
          /\ col' = [col EXCEPT !.pc = "raised", !.err = "TimeoutError"]
    /\ UNCHANGED <<sessionVars, viewTop>>

\* data_downloader/scraper.py:42-45: stop when the result did not grow.
collector_check ==
    /\ col.pc = "row"
    /\ col.k = col.current_rows_count
    /\ IF Len(col.standings_data) = col.previous_results_count
       THEN col' = [col EXCEPT !.pc = "done"]
       ELSE /\ col.iters < MaxScrollIters
            /\ col' = [col EXCEPT !.pc = "scroll", !.iters = @ + 1,
                                  !.previous_results_count = Len(col.standings_data)]
    /\ UNCHANGED <<sessionVars, viewTop>>

\* data_downloader/scraper.py:48: rows_locator.last.scroll_into_view_if_needed();
\* with no row mounted the locator times out.
collector_scroll ==
    /\ col.pc = "scroll"
    /\ IF col.current_rows_count = 0
       THEN col' = [col EXCEPT !.pc = "raised", !.err = "TimeoutError"] /\ UNCHANGED viewTop
       ELSE /\ col' = [col EXCEPT !.pc = "settle"]
            /\ \E t \in ScrollTargets(viewTop + col.current_rows_count) : viewTop' = t
    /\ UNCHANGED sessionVars

\* data_downloader/scraper.py:50: wait_for_timeout(500).
collector_settle ==
    /\ col.pc = "settle"
    /\ col' = [col EXCEPT !.pc = "count"]
    /\ UNCHANGED <<sessionVars, viewTop>>

scrape_standings ==
    \/ page_moves
    \/ collector_count
    \/ collector_label
    \/ collector_rank
    \/ collector_points
    \/ collector_check
    \/ collector_scroll
    \/ collector_settle

\* ----------------------------- data_downloader/scraper.py: main()
\* An awaited call of main() goes through and main() moves on to step next.
MainGoes(next) ==
    alive /\ pc' = next /\ mpc' = mpc /\ ret' = ret /\ lastErr' = lastErr /\ alive' = alive

\* An awaited call of main() raises: the exception leaves the async with block.
MainRaises == PageOpRaises /\ pc' = "m_exit"

\* data_downloader/scraper.py:56: async with async_playwright() as p.
main_start ==
    /\ pc = "m_start"
    /\ \/ MainGoes("m_launch") /\ playwright' = "obj"
       \/ Raises({"transient"}) /\ pc' = "m_failed" /\ UNCHANGED playwright
    /\ UNCHANGED <<program, config, numTeams, i, locVars, files, appVars, g, h, pureVars, authFile, viewTop, browser, context, page, target_url, col>>

\* data_downloader/scraper.py:57: p.chromium.launch(headless=False).
main_launch ==
    /\ pc = "m_launch"
    /\ \/ MainGoes("m_new_context") /\ browser' = "obj"
       \/ Raises({"transient"}) /\ pc' = "m_exit" /\ UNCHANGED browser
    /\ UNCHANGED <<program, config, numTeams, i, locVars, files, appVars, g, h, pureVars, authFile, viewTop, playwright, context, page, target_url, col>>

\* data_downloader/scraper.py:59-64: new_context, with the stored state when
\* the file exists.
main_new_context ==
    /\ pc = "m_new_context"
    /\ \/ MainGoes("m_new_page") /\ context' = "obj"
       \/ MainRaises /\ UNCHANGED context
    /\ UNCHANGED <<program, config, numTeams, i, locVars, files, appVars, g, h, pureVars, authFile, viewTop, browser, playwright, page, target_url, col>>

\* data_downloader/scraper.py:66: context.new_page().
main_new_page ==
    /\ pc = "m_new_page"
    /\ \/ MainGoes("m_goto_home") /\ page' = "obj"
       \/ MainRaises /\ UNCHANGED page
    /\ UNCHANGED <<program, config, numTeams, i, locVars, files, appVars, g, h, pureVars, authFile, viewTop, browser, playwright, context, target_url, col>>

\* data_downloader/scraper.py:68: page.goto of the home page.
main_goto_home ==
    /\ pc = "m_goto_home"
    /\ \/ MainGoes("m_login")
       \/ MainRaises
    /\ UNCHANGED <<program, config, numTeams, i, locVars, files, appVars, g, h, pureVars, authFile, viewTop, objVars, col>>

\* data_downloader/scraper.py:70-74: when auth_state.json does not exist: the
\* interactive login, then context.storage_state writes the file.
main_login ==
    /\ pc = "m_login"
    /\ \/ authFile /\ MainGoes("m_read_config") /\ UNCHANGED authFile
       \/ ~authFile /\ MainGoes("m_read_config") /\ authFile' = TRUE
       \/ ~authFile /\ MainRaises /\ UNCHANGED authFile
    /\ UNCHANGED <<program, config, numTeams, i, locVars, files, appVars, g, h, pureVars, viewTop, objVars, col>>

\* data_downloader/scraper.py:78-87: the first line of example_contests.txt;
\* main() returns when the file is missing or the line blank.
main_read_config ==
    /\ pc = "m_read_config"
    /\ pc' = IF config = "ok" THEN "m_goto_target" ELSE "m_exit"
    /\ target_url' = CASE config = "ok" -> "url"
                       [] config = "blank" -> ""
                       [] OTHER -> target_url
    /\ UNCHANGED <<program, config, authFile, alive, numTeams, viewTop, browser, playwright,
                   context, page, mpc, ret, lastErr, i, locVars, files, appVars, g, h, col,
                   pureVars>>

\* data_downloader/scraper.py:90: page.goto(target_url).
main_goto_target ==
    /\ pc = "m_goto_target"
    /\ \/ MainGoes("m_wait_header") /\ viewTop' = 0
       \/ MainRaises /\ UNCHANGED viewTop
    /\ UNCHANGED <<program, config, numTeams, i, locVars, files, appVars, g, h, pureVars, authFile, objVars, col>>

\* data_downloader/scraper.py:95-99: the user clicks the first row; then
\* wait_for_selector of the table header, which times out when it is not there.
main_wait_header ==
    /\ pc = "m_wait_header"
    /\ \/ MainGoes("m_call")
       \/ MainRaises
    /\ UNCHANGED <<program, config, numTeams, i, locVars, files, appVars, g, h, pureVars, authFile, viewTop, objVars, col>>

\* data_downloader/scraper.py:101, 9-13: scrape_standings(page) is called and
\* sets up its locals.
main_call ==
    /\ pc = "m_call"
    /\ pc' = "m_scrape"
    /\ col' = [col EXCEPT !.pc = "count"]
    /\ UNCHANGED <<program, envVars, objVars, mpc, ret, lastErr, i, locVars, files,
                   appVars, g, h, pureVars>>

\* data_downloader/scraper.py:101-110: scrape_standings has returned and the
\* summary is printed, or it has raised and the exception leaves main().
main_scraped ==
    /\ pc = "m_scrape"
    /\ \/ /\ col.pc = "done"
          /\ pc' = "m_wait_close"
          /\ UNCHANGED <<ret, lastErr>>
       \/ /\ col.pc = "raised"
          /\ pc' = "m_exit"
          /\ ret' = "raise"
          /\ lastErr' = "transient"
    /\ UNCHANGED <<program, envVars, objVars, mpc, i, locVars, files, appVars, g, h, col,
                   pureVars>>

\* data_downloader/scraper.py:111: page.wait_for_event('close'): the user closes
\* the page, or the wait times out.
main_wait_close ==
    /\ pc = "m_wait_close"
    /\ \/ MainGoes("m_close") /\ page' = None
       \/ MainRaises /\ UNCHANGED page
    /\ UNCHANGED <<program, config, numTeams, i, locVars, files, appVars, g, h, pureVars, authFile, viewTop, browser, playwright, context, target_url, col>>

\* data_downloader/scraper.py:113: browser.close().
main_close ==
    /\ pc = "m_close"
    /\ \/ /\ pc' = "m_exit"
          /\ browser' = None
          /\ context' = None
          /\ UNCHANGED <<mpc, ret, lastErr, alive>>
       \/ MainRaises /\ UNCHANGED <<browser, context>>
    /\ UNCHANGED <<program, config, numTeams, i, locVars, files, appVars, g, h, pureVars, authFile, viewTop, playwright, page, target_url, col>>

\* data_downloader/scraper.py:56: the async with block is left, by the end of
\* its body, by a return or by an exception: playwright stops and what it had
\* opened is closed.
main_exit ==
    /\ pc = "m_exit"
    /\ pc' = IF ret = "raise" THEN "m_failed" ELSE "m_done"
    /\ playwright' = None
    /\ browser' = None
    /\ context' = None
    /\ page' = None
    /\ UNCHANGED <<program, envVars, target_url, mpc, ret, lastErr, i, locVars, files,
                   appVars, g, h, col, pureVars>>

main ==
    \/ main_start
    \/ main_launch
    \/ main_new_context
    \/ main_new_page
    \/ main_goto_home
    \/ main_login
    \/ main_read_config
    \/ main_goto_target
    \/ main_wait_header
    \/ main_call
    \/ main_scraped
    \/ main_wait_close
    \/ main_close
    \/ main_exit

\* ------------------------------------------------------------- the claims
\* The team names of one persisted snapshot.
TeamsOf(snapshot) == {snapshot[k].TeamName[1] : k \in 1..Len(snapshot)}

\* The caller has left its poll loop.
ExitPcs == {"t_finally", "t_close", "t_exit", "t_done", "s_finally", "s_close", "s_done"}

\* C1: every snapshot a poll persists holds one entry for every team of the
\* leaderboard, also when the leaderboard is larger than the window of rows
\* the virtualized table mounts at once.
C1_EverySnapshotComplete ==
    numTeams > WindowSize =>
        \A f \in 1..Len(files) :
            TeamsOf(files[f]) = 1..numTeams /\ Len(files[f]) = numTeams

\* C2: the list the collector scrape_standings returns holds each username at
\* most once, with the values of the first read of that username, and lists
\* the usernames in the order of their first reads.
C2_CollectorDedupFirstSeen ==
    col.pc = "done" =>
        LET sd == col.standings_data IN
        /\ \A a, b \in 1..Len(sd) : a # b => sd[a].username # sd[b].username
        /\ \A a \in 1..Len(sd) :
              col.first[sd[a].username] =
                  Some([rank |-> sd[a].rank, points |-> sd[a].points])
        /\ [a \in 1..Len(sd) |-> sd[a].username] = col.order

\* C2 witness: the collector returned two or more users after reading a row of
\* a user it had already read.
C2_Witness ==
    col.pc = "done" /\ col.rereads /\ Len(col.standings_data) >= 2

\* C3: a poll writes its snapshot file (a new one, or over one of the same
\* second) only after the scroll loop has stabilized, and a poll in which the
\* reload, the table wait, the scroll loop or the extraction raises writes no
\* file: the files are those of before the poll.
C3_SnapshotOnlyAfterStabilization ==
    h.polling =>
        /\ (h.wrote \/ Len(files) # h.filesAtPollStart) => h.stabilized
        /\ (ret = "raise" /\ ~h.raisedInSave) =>
              ~h.wrote /\ Len(files) = h.filesAtPollStart

\* C3 witness: the extraction of a poll raised after its scroll loop had
\* stabilized, in a run that had already written a file, and the poll wrote
\* nothing.
C3_Witness ==
    /\ h.polling
    /\ ret = "raise"
    /\ ~h.raisedInSave
    /\ h.stabilized
    /\ ~h.wrote
    /\ Len(files) = 1
    /\ h.filesAtPollStart = 1

\* C4: both scroll loops enforce a maximum number of iterations: neither
\* begins more than StabilizationBound iterations.
C4_ScrollLoopsBounded ==
    h.iters <= StabilizationBound /\ col.iters <= StabilizationBound

\* C5: after a stop request issued while a poll loop is in a sleep phase, the
\* loop starts no further one-second sleep and no browser operation: it exits
\* within the tick that was in flight.
C5_StopDuringSleepExitsWithinATick ==
    h.stopPhase = "sleep" => h.sleepsAfterStop = 0 /\ h.opsAfterStop = 0

\* C5 witness: the app's thread has ended after a stop requested during a
\* sleep phase of its loop.
C5_Witness ==
    h.stopPhase = "sleep" /\ pc = "t_done" /\ h.loopEntered

\* C6 as stated: in both loops a failed poll is followed by the 60 tick
\* backoff and then the next poll, with no page reload in between, and the
\* loop is not left because of the exception.
C6_BackoffThenRetry ==
    /\ h.failPending => h.reloadsSinceFail = 0
    /\ h.retrySeen => h.retryTicks = BackoffTicks /\ h.retryReloads = 0
    /\ h.loopEntered /\ pc \in ExitPcs => h.stopPhase # "none"

\* C7: close() is idempotent: over any sequence of calls the browser and the
\* automation runtime are each released at most once.
C7_CloseReleasesOnce ==
    g.browserCloses <= 1 /\ g.playwrightStops <= 1

\* C8: with the target config missing or blank, neither poll loop is entered,
\* no poll and no page reload is ever made, and once the program has ended
\* close() has run and has closed the browser that was launched.
C8_BadConfigNoLoop ==
    config # "ok" /\ program \in {"app", "scheduler"} =>
        /\ g.refreshCalls = 0
        /\ g.reloads = 0
        /\ ~h.loopEntered
        /\ pc \in {"t_done", "s_done"} =>
              /\ g.closeCalls = 1
              /\ browser # None => g.browserCloses = 1

\* C8 witness: the scheduler has ended on a blank config line, after reading
\* it, with the browser closed.
C8_Witness ==
    /\ config = "blank"
    /\ pc = "s_done"
    /\ target_url = ""
    /\ g.browserCloses = 1

\* C9: once a poll has raised because the browser session is dead, the poll
\* loop starts no further poll.
C9_FatalEndsLoop ==
    h.pollsAfterFatal = 0

\* C10: one DraftKingsScraper launches the browser, creates its context and
\* its page, and goes through the interactive login at most once each.
C10_SingleSession ==
    g.launches <= 1 /\ g.contexts <= 1 /\ g.pages <= 1 /\ g.logins <= 1

\* C10 witness: a second initialize() has returned True on an instance that
\* had logged in and whose poll had raised because the browser died.
C10_Witness ==
    /\ program = "client"
    /\ g.initCalls = 2
    /\ g.refreshCalls = 1
    /\ g.calls = 3
    /\ g.launches = 1
    /\ g.logins = 1
    /\ ~alive
    /\ mpc = "idle"
    /\ ret = "True"

\* The positions of refresh_and_scrape: a poll is in progress.
PollPcs ==
    {"refresh_and_scrape", "rs_wait_load", "rs_wait_selector", "rs_count", "rs_scroll",
     "rs_settle", "rs_content", "rs_parse", "rs_save"}

\* C11.  For any sequence of start_scraper and stop_scraper calls at most one
\* scraper thread is alive and at most one browser was launched, and a poll is
\* in progress only while the one thread is at its poll step, never during its
\* sleep, settle or backoff.
C11_OneThreadOneSession ==
    program = "app" =>
        /\ g.threadStarts - g.threadExits <= 1
        /\ g.launches <= 1
        /\ (mpc \in PollPcs \/ h.polling) => pc = "t_poll"
        /\ (mpc # "idle" => pc \in {"t_init", "t_poll", "t_close"})

\* C11 witness: the loop was stopped during a sleep, start_scraper was called
\* again and refused while the thread had not yet seen the stop.
C11_Witness ==
    /\ program = "app"
    /\ h.startRefused
    /\ ~scraper_running
    /\ h.stopPhase = "sleep"
    /\ pc = "t_sleep_in"
    /\ g.threadStarts = 1
    /\ g.refreshCalls = 1

\* C12.  A call of initialize() that returns has performed the interactive
\* login if and only if the authentication artifact did not exist when the call
\* started; a login is followed by exactly one write of the artifact, and an
\* artifact that existed was loaded into the context and is never rewritten.
C12_LoginIffNoArtifact ==
    (mpc = "idle" /\ ret \in {"True", "False"}) =>
        /\ h.initLogin <=> ~h.initAuthAtStart
        /\ h.initLogin => g.authWrites = 1
        /\ h.initAuthAtStart /\ g.logins = 0 => h.authLoaded /\ g.authWrites = 0

\* The wins all rows of a result were given.
RECURSIVE SumWins(_)
SumWins(rows) ==
    IF rows = <<>> THEN 0 ELSE Head(rows).WinProb.wins + SumWins(Tail(rows))

\* The rows of a frame that have both FPTS and PMR.
ValidRows(frame) == {t \in 1..Len(frame) : IsNum(frame[t].FPTS) /\ IsNum(frame[t].PMR)}

\* C14.  For every frame with at least one row that has FPTS and PMR, the wins
\* dfs_win_probs hands out sum to sims, so the WinProb column sums to 1.
C14_WinProbsSumToOne ==
    \A k \in 1..Len(runs) :
        ValidRows(runs[k].df) # {} =>
            /\ runs[k].out.raised = "none"
            /\ Len(runs[k].out.rows) = Len(runs[k].df)
            /\ SumWins(runs[k].out.rows) = runs[k].sims
            /\ \A t \in 1..Len(runs[k].df) :
                  runs[k].out.rows[t].WinProb.sims = runs[k].sims

\* C14 witness: a run of two trials over two valid teams in which each team
\* won one trial.
C14_Witness ==
    /\ Len(runs) >= 1
    /\ runs[1].sims = 2
    /\ ValidRows(runs[1].df) = {1, 2}
    /\ runs[1].out.rows[1].WinProb.wins = 1
    /\ runs[1].out.rows[2].WinProb.wins = 1

\* The frame without the rows that miss FPTS or PMR.
DropNa(frame) == SelectSeq(frame, LAMBDA r : IsNum(r.FPTS) /\ IsNum(r.PMR))

\* The wins of the rows of a result, by team name.
WinsOf(out, team) ==
    {out.rows[t].WinProb.wins : t \in {u \in 1..Len(out.rows) : out.rows[u].TeamName = team}}

\* C15.  A row whose FPTS or PMR is missing never wins a trial, and the rows
\* that have both values get the wins they get when the frame is simulated
\* without the incomplete rows.
C15_MissingRowsExcluded ==
    /\ \A k \in 1..Len(runs) : \A t \in 1..Len(runs[k].out.rows) :
          t \notin ValidRows(runs[k].df) => runs[k].out.rows[t].WinProb.wins = 0
    /\ (/\ Len(runs) = 2
        /\ runs[2].df = DropNa(runs[1].df)
        /\ runs[1].random_state # Null
        /\ runs[2].random_state = runs[1].random_state
        /\ runs[2].out.raised = "none")
       => \A t \in 1..Len(runs[2].df) :
             WinsOf(runs[1].out, runs[2].df[t].TeamName)
                 = {runs[2].out.rows[t].WinProb.wins}

\* The rows of a frame whose PMR is 0.
ZeroPmrRows(frame) == {t \in 1..Len(frame) : frame[t].PMR = Some(0)}

\* The first row with the highest ProjFinal of a returned frame whose rows all
\* have one.
FirstLeader(rows) ==
    CHOOSE t \in 1..Len(rows) :
        /\ \A u \in 1..Len(rows) : rows[u].ProjFinal[1] <= rows[t].ProjFinal[1]
        /\ \A u \in 1..(t - 1) : rows[u].ProjFinal[1] < rows[t].ProjFinal[1]

\* C16 as stated.  Every row with PMR = 0, whatever the PMR of the other rows,
\* gets StdDev = 0 and wins either no trial or every trial.
C16_ZeroPmrNeverFractional ==
    \A k \in 1..Len(runs) : \A t \in ZeroPmrRows(runs[k].df) :
        runs[k].out.raised = "none" =>
            /\ runs[k].out.rows[t].StdDev = Some(0)
            /\ runs[k].out.rows[t].WinProb.wins \in {0, runs[k].sims}

\* C16 amended.  Every row with PMR = 0 gets StdDev = 0.  When every row of the
\* snapshot has an FPTS and a PMR and gets StdDev = 0 (its PMR is 0, or sigma2
\* is 0), every WinProb is 0 or 1: the first row with the highest ProjFinal
\* wins every trial and every other row wins none.
C16_ZeroPmrDeterministicWhenAllZero ==
    \A k \in 1..Len(runs) :
        runs[k].out.raised = "none" =>
            /\ \A t \in ZeroPmrRows(runs[k].df) : runs[k].out.rows[t].StdDev = Some(0)
            /\ (/\ ValidRows(runs[k].df) = 1..Len(runs[k].df)
                /\ \A t \in 1..Len(runs[k].df) : runs[k].out.rows[t].StdDev = Some(0))
               => \A t \in 1..Len(runs[k].df) :
                     runs[k].out.rows[t].WinProb.wins =
                         IF t = FirstLeader(runs[k].out.rows) THEN runs[k].sims ELSE 0

\* C16 witness: two rows with PMR = 0, a positive sigma2 and two trials; the
\* second row has the higher FPTS and won both.
C16_Witness ==
    /\ Len(runs) >= 1
    /\ runs[1].sigma2 > 0
    /\ runs[1].sims = 2
    /\ Len(runs[1].df) = 2
    /\ ZeroPmrRows(runs[1].df) = {1, 2}
    /\ runs[1].out.rows[1].WinProb.wins = 0
    /\ runs[1].out.rows[2].WinProb.wins = 2
    /\ runs[1].out.rows[2].StdDev = Some(0)

PmrRaised(f1, f2, t) ==
    /\ Len(f1) = Len(f2)
    /\ t \in 1..Len(f1)
    /\ IsNum(f1[t].PMR) /\ IsNum(f2[t].PMR)
    /\ f1[t].PMR[1] < f2[t].PMR[1]
    /\ f2 = [f1 EXCEPT ![t].PMR = f2[t].PMR]

\* C19.  With a positive sigma2, raising one team's PMR with its FPTS held
\* fixed strictly increases that team's StdDev and does not decrease its
\* ProjFinal, which is FPTS + PMR / 4.
C19_MorePmrMoreSpread ==
    \A j, k \in 1..Len(runs) : \A t \in 1..Len(runs[j].df) :
        (/\ PmrRaised(runs[j].df, runs[k].df, t)
         /\ runs[j].sigma2 > 0
         /\ runs[j].sigma2 = runs[k].sigma2)
        => /\ runs[j].out.rows[t].StdDev[1] < runs[k].out.rows[t].StdDev[1]
           /\ IsNum(runs[j].df[t].FPTS) =>
                 /\ runs[j].out.rows[t].ProjFinal[1] <= runs[k].out.rows[t].ProjFinal[1]
                 /\ runs[k].out.rows[t].ProjFinal[1] =
                       Quarter * runs[k].df[t].FPTS[1] + runs[k].df[t].PMR[1]

\* C19 witness: the PMR of a row with FPTS 1 went from 2 to 8 between two calls
\* with sigma2 = 0.5, and its StdDev from 1 to 2 (4 and 8 quarters).
C19_Witness ==
    /\ Len(runs) = 2
    /\ runs[1].sigma2 = 1
    /\ PmrRaised(runs[1].df, runs[2].df, 1)
    /\ runs[1].df[1].FPTS = Some(1)
    /\ runs[1].df[1].PMR = Some(2)
    /\ runs[2].df[1].PMR = Some(8)
    /\ runs[1].out.rows[1].StdDev = Some(4)
    /\ runs[2].out.rows[1].StdDev = Some(8)

\* C13.  After a poll that wrote a snapshot with rows and the load_data that
\* follows it, the aggregation holds that snapshot under the timeindex of its
\* file name, and get_latest_data returns its teams.
C13_PolledSnapshotIsLatest ==
    (/\ program = "app"
     /\ pc = "t_sleep"
     /\ i = 0
     /\ files # <<>>
     /\ files[Len(files)] # <<>>)
    => \A shown \in get_latest_data(standings_data) :
          LET snapshot == files[Len(files)]
          IN /\ shown.kind = "data"
             /\ shown.time = TimeIndex(SnapshotName(Len(files)))
             /\ {shown.rows[k].TeamName : k \in 1..Len(shown.rows)}
                   = {Text(snapshot[k].TeamName[1]) : k \in 1..Len(snapshot)}

\* C17.  When the projection raised, every row get_latest_data returns has
\* ProjFinal = FPTS and WinProb = 0, and the result has a column that a real
\* projection does not have, which marks it as degraded.
C17_FallbackIsMarked ==
    (latest.kind = "data" /\ latest.failed) =>
        /\ \A k \in 1..Len(latest.rows) :
              /\ latest.rows[k].ProjFinal = latest.rows[k].FPTS
              /\ latest.rows[k].WinProb.wins = 0
        /\ \E c \in latest.columns : c \notin LoadedColumns \cup ProjectionColumns

\* The number of times row r occurs in a sequence of rows.
Occurrences(rows, r) == Cardinality({k \in 1..Len(rows) : rows[k] = r})

\* C20.  parse_dk_standings keeps a row exactly when at least one of rank,
\* team name, pmr and fpts resolved: the frame has every such row of the markup
\* as often as the markup has it, unchanged (a missing fpts stays missing), and
\* no row with all four unresolved.
C20_KeptIffSomeFieldResolved ==
    pc = "parsed" =>
        \A m \in MarkupRows :
            LET r == ExtractRow(m) IN
            Occurrences(standings_df, r) =
                IF r.Rank # Null \/ r.TeamName # Null \/ r.PMR # Null \/ r.FPTS # Null
                THEN Occurrences(ExtractRows(html_content), r) ELSE 0

\* C20 witness: the markup had a row with nothing resolved and a row that
\* missed only its points; the frame has the second alone, with FPTS missing.
C20_Witness ==
    /\ pc = "parsed"
    /\ Len(html_content) = 2
    /\ ExtractRow(html_content[1]) =
           [Rank |-> Null, TeamName |-> Null, PMR |-> Null, FPTS |-> Null]
    /\ ExtractRow(html_content[2]).FPTS = Null
    /\ ExtractRow(html_content[2]).Rank # Null
    /\ ExtractRow(html_content[2]).TeamName # Null
    /\ ExtractRow(html_content[2]).PMR # Null
    /\ standings_df = <<ExtractRow(html_content[2])>>

\* The rows of a frame whose rank is x, in the order of the frame.
WithRank(rows, x) ==
    LET Has(r) == r.Rank = x IN SelectSeq(rows, Has)

\* The ranks a row can hold, a missing one included.
RankCells == {Null} \cup {Some(x) : x \in 0..MaxTeams}

\* C21 as stated: the frame is in ascending rank order when every kept row has
\* a rank, and in the order of the markup as soon as one kept row has none.
C21_SortedOnlyWhenAllRanked ==
    pc = "parsed" =>
        LET kept == KeptRows(ExtractRows(html_content)) IN
        IF \A k \in 1..Len(kept) : kept[k].Rank # Null
        THEN /\ Len(standings_df) = Len(kept)
             /\ \A a, b \in 1..Len(standings_df) :
                    a < b => standings_df[a].Rank[1] <= standings_df[b].Rank[1]
        ELSE standings_df = kept

\* C21.  parse_dk_standings sorts the kept rows by rank whenever at least one
\* of them has a rank: ranked rows ascending, rows without rank after them, rows
\* of equal rank (or both without) in the order of the markup.  The order of
\* the markup is kept as a whole only when no kept row has a rank.
C21_SortedWhenSomeRanked ==
    pc = "parsed" =>
        LET kept == KeptRows(ExtractRows(html_content)) IN
        IF \E k \in 1..Len(kept) : kept[k].Rank # Null
        THEN /\ \A x \in RankCells : WithRank(standings_df, x) = WithRank(kept, x)
             /\ \A a, b \in 1..Len(standings_df) :
                    a < b => ~RankBefore(standings_df[b], standings_df[a])
        ELSE standings_df = kept

\* C21 witness: the markup had a row without rank before a ranked row, and the
\* frame has the ranked row first.
C21_Witness ==
    /\ pc = "parsed"
    /\ Len(html_content) = 2
    /\ ExtractRow(html_content[1]).Rank = Null
    /\ ExtractRow(html_content[1]).TeamName # Null
    /\ ExtractRow(html_content[2]).Rank # Null
    /\ standings_df = <<ExtractRow(html_content[2]), ExtractRow(html_content[1])>>

\* C22 as stated: with no row mounted the collector stops at once with an
\* empty result: scrape_standings takes no second pass and scrolls no last row,
\* and neither does the loop of refresh_and_scrape.
C22_NoRowsStopsAtOnce ==
    numTeams = 0 =>
        /\ col.iters = 0
        /\ col.pc \notin {"scroll", "settle", "raised"}
        /\ mpc \notin {"rs_scroll", "rs_settle"}

\* C23 as stated: scrape_standings does not fail on a row whose rank or points
\* text does not parse, and every user it marked seen has a row in the result.
C23_UnparsableRowIsKept ==
    /\ col.err # "ValueError"
    /\ col.pc \in {"done", "raised"} =>
           \A u \in col.seen_users :
               \E k \in 1..Len(col.standings_data) : col.standings_data[k].username = u

\* C24 as stated: against T teams scrape_standings makes at most T passes that
\* are not the last, each of them adds a row, and the result never shrinks.
C24_AtMostTeamsPlusOnePasses ==
    program = "collector" =>
        /\ col.iters <= numTeams
        /\ Len(col.standings_data) >= col.iters
        /\ Len(col.standings_data) >= col.previous_results_count
        /\ col.err # "TimeoutError"

\* The element of the first selector whose element has text.
RECURSIVE FirstWithText(_)
FirstWithText(strategies) ==
    IF strategies = <<>> THEN Null
    ELSE IF Head(strategies) # Null /\ Head(strategies) # ElemEmpty THEN Head(strategies)
    ELSE FirstWithText(Tail(strategies))

\* The fields of a row of the markup when each field is read from the first
\* selector that yields text.
FirstTextRow(m) ==
    [Rank |-> to_int(FirstWithText(m.Rank)), TeamName |-> get_text(FirstMatch(m.TeamName)),
     PMR |-> to_int(FirstWithText(m.PMR)), FPTS |-> to_float(FirstWithText(m.FPTS))]

\* C25 as stated: each field of a parsed row is the text of the first selector
\* that yields non-empty text: a row of the markup is in the frame with the
\* fields so read.
C25_FirstStrategyWithTextWins ==
    pc = "parsed" =>
        \A k \in 1..Len(html_content) :
            KeepRow(FirstTextRow(html_content[k])) =>
                \E j \in 1..Len(standings_df) :
                    standings_df[j] = FirstTextRow(html_content[k])

\* The rows of a frame that no row beats on FPTS.
Leaders(frame) ==
    {t \in 1..Len(frame) : \A u \in 1..Len(frame) : frame[u].FPTS[1] <= frame[t].FPTS[1]}

\* C26.  When every row of the frame has PMR = 0 (and an FPTS), dfs_win_probs
\* gives every trial to one row: the row with the strictly greatest FPTS, and
\* among rows tied for the greatest FPTS the one of lowest index; every other
\* row wins no trial.
C26_AllFinalLowestLeaderWins ==
    \A k \in 1..Len(runs) :
        LET frame == runs[k].df
            wins(t) == runs[k].out.rows[t].WinProb.wins
        IN  (/\ runs[k].out.raised = "none"
             /\ \A t \in 1..Len(frame) : frame[t].PMR = Some(0) /\ IsNum(frame[t].FPTS))
            => \A t \in 1..Len(frame) :
                  /\ (t \in Leaders(frame) /\ \A u \in Leaders(frame) : t <= u)
                         => wins(t) = runs[k].sims
                  /\ (t \notin Leaders(frame) \/ \E u \in Leaders(frame) : u < t)
                         => wins(t) = 0

\* C26 witness: two rows with PMR = 0 and the same FPTS, two trials: the first
\* row won both.
C26_Witness ==
    /\ Len(runs) >= 1
    /\ runs[1].sims = 2
    /\ Len(runs[1].df) = 2
    /\ runs[1].df[1].PMR = Some(0)
    /\ runs[1].df[2].PMR = Some(0)
    /\ IsNum(runs[1].df[1].FPTS)
    /\ runs[1].df[1].FPTS = runs[1].df[2].FPTS
    /\ runs[1].out.raised = "none"
    /\ runs[1].out.rows[1].WinProb.wins = 2
    /\ runs[1].out.rows[2].WinProb.wins = 0

\* C29 as stated: whenever initialize() has returned True, a non-empty target
\* URL was read and the standings table was found on the contest page.
C29_TrueOnlyWhenTableFound ==
    (mpc = "idle" /\ ret = "True") =>
        /\ target_url \notin {None, ""}
        /\ h.tableFound

\* The value a loaded cell spells: the number its text reads as, or nothing.
Spelled(c) == IF c = PyNone THEN Null ELSE Some(c[2])

\* C27 as stated: every snapshot written with to_csv, those with absent values
\* included, is read back by load_standings_file with the same rows: the same
\* Rank, Team Name, PMR and FPTS in every row, an absent value absent again.
C27_CsvRoundTrip ==
    \A dir \in Directory(files, examples) : \A k \in 1..Len(dir) :
        LET rows == dir[k].rows
            back == load_standings_file(rows)
        IN  /\ ~back.raised
            /\ Len(back.rows) = Len(rows)
            /\ \A j \in 1..Len(back.rows) :
                   /\ Spelled(back.rows[j].Rank) = rows[j].Rank
                   /\ Spelled(back.rows[j].TeamName) = rows[j].TeamName
                   /\ Spelled(back.rows[j].PMR) = rows[j].PMR
                   /\ Spelled(back.rows[j].FPTS) = rows[j].FPTS

\* C28 as stated: the shared frame of the app is what load_data made of the
\* files, with the same values and value types, whatever was computed from it.
C28_CallerFrameUnchanged ==
    program = "dashboard" =>
        standings_data \in
            {<<>>} \cup {load_data(dir).rows : dir \in Directory(files, examples)}

\* C30 as stated: once a stop was requested while the thread runs, the thread
\* starts no refresh_and_scrape any more, ends, has called close() once when it
\* has ended and leaves scraper_running false.
C30_StopEndsThreadWithoutNewPoll ==
    /\ [](h.pollsAfterStop = 0)
    /\ [](pc = "t_done" => g.closeCalls = 1 /\ ~scraper_running)
    /\ (h.stopPhase # "none") ~> (pc = "t_done")

\* C30.  Once a stop was requested while the thread runs, the thread ends
\* (every browser operation under way coming to an end); it has then called
\* close() exactly once and scraper_running is false.  It starts no
\* refresh_and_scrape after the request, but for one: the call of the pass
\* whose test of scraper_running came before the request.
C30_StopEndsThreadAfterAtMostOnePoll ==
    /\ [](h.pollsAfterStop <= (IF h.stopPhase = "call" THEN 1 ELSE 0))
    /\ [](pc = "t_done" => g.closeCalls = 1 /\ ~scraper_running)
    /\ (h.stopPhase # "none") ~> (pc = "t_done")

\* C30 witness: the stop came between the test of the flag and the call; the
\* thread made that one poll, closed the scraper and ended.
C30_Witness ==
    /\ h.stopPhase = "call"
    /\ h.pollsAfterStop = 1
    /\ pc = "t_done"
    /\ g.closeCalls = 1
    /\ ~scraper_running

\* C31.  refresh_and_scrape() on a scraper whose initialize() was never called
\* returns None in one step: no browser operation is made (the page is not
\* reloaded, nothing raises, the browser's liveness is untouched), no snapshot
\* is written and the scraper's fields stay as they were.
C31_UninitializedRefreshIsNoOp ==
    [][(mpc = "refresh_and_scrape" /\ g.initCalls = 0 /\ mpc' # mpc)
        => /\ mpc' = "idle"
           /\ ret' = "None"
           /\ UNCHANGED <<objVars, files, viewTop, alive, authFile, locVars>>]_vars

\* C31 witness: the first call on a fresh scraper was refresh_and_scrape and
\* it has returned None; there is no page and no file.
C31_Witness ==
    /\ mpc = "idle"
    /\ ret = "None"
    /\ g.initCalls = 0
    /\ g.refreshCalls = 1
    /\ page = None
    /\ files = <<>>

\* No two rows of a frame have the same team name and timeindex.
NoDuplicatePairs(rows) ==
    \A j, k \in 1..Len(rows) :
        j # k => <<rows[j].TeamName, rows[j].timeindex>> # <<rows[k].TeamName, rows[k].timeindex>>

\* C32 as stated: with load_data() running in the scraper thread beside the
\* page callback, every value of standings_data that get_latest_data has read is
\* free of duplicate (Team Name, timeindex) pairs, and its check and its later
\* reads saw one and the same frame.
C32_ReadsDeduplicatedAndSame ==
    program = "shared" =>
        \A k \in 1..Len(cc.reads) :
            /\ NoDuplicatePairs(cc.reads[k])
            /\ cc.reads[k] = cc.reads[1]

\* ------------------------------------------------------------ the system
Programs ==
    {"app", "scheduler", "legacy", "client", "collector", "projection", "dashboard",
     "parser", "shared"}

\* The programs that open no browser and no leaderboard.
PurePrograms == {"projection", "dashboard", "parser", "shared"}

\* Where each program starts.
StartPc(p) ==
    CASE p = "app" -> "t_not_started"
      [] p = "scheduler" -> "s_begin"
      [] p = "legacy" -> "l_begin"
      [] p = "client" -> "client"
      [] p = "projection" -> "projection"
      [] p = "dashboard" -> "dashboard"
      [] p = "parser" -> "parser"
      [] p = "shared" -> "shared"
      [] OTHER -> "m_start"

InitCounters ==
    [initCalls |-> 0, starts |-> 0, launches |-> 0, contexts |-> 0, pages |-> 0,
     logins |-> 0, authWrites |-> 0, closeCalls |-> 0, browserCloses |-> 0,
     playwrightStops |-> 0, refreshCalls |-> 0, reloads |-> 0, calls |-> 0,
     threadStarts |-> 0, threadExits |-> 0]

InitHistory ==
    [filesAtPollStart |-> 0, stabilized |-> FALSE, iters |-> 0, polling |-> FALSE,
     authLoaded |-> FALSE,
     stopPhase |-> "none", sleepsAfterStop |-> 0, opsAfterStop |-> 0,
     pollsAfterStop |-> 0,
     failPending |-> FALSE, ticksSinceFail |-> 0, reloadsSinceFail |-> 0,
     retrySeen |-> FALSE, retryTicks |-> 0, retryReloads |-> 0,
     fatalInPoll |-> FALSE, pollsAfterFatal |-> 0, loopEntered |-> FALSE,
     startRefused |-> FALSE, initAuthAtStart |-> FALSE, initLogin |-> FALSE,
     tableFound |-> FALSE, wrote |-> FALSE, raisedInSave |-> FALSE]

\* app.py:89: the data was loaded at import; no thread is inside load_data
\* (neither holds a copy of line 34) and get_latest_data has read nothing yet.
InitShared ==
    [tpc |-> "idle", loads |-> 0, rpc |-> "idle", reads |-> <<>>,
     tframe |-> <<>>, rframe |-> <<>>]

\* data_downloader/scraper.py:11-13: the collector's locals before the loop.
InitCollector(multi) ==
    [pc |-> "off", current_rows_count |-> 0, k |-> 0,
     seen_users |-> {}, standings_data |-> <<>>, previous_results_count |-> -1,
     iters |-> 0, multi |-> multi, rereads |-> FALSE, err |-> "none",
     username |-> 0, rank_text |-> Null, points_text |-> Null, moves |-> 0,
     first |-> [u \in 1..(MaxTeams + 1) |-> Null], order |-> <<>>]

Init ==
    /\ program \in Programs
    /\ config \in (IF program \in PurePrograms THEN {"ok"} ELSE {"missing", "blank", "ok"})
    /\ authFile \in (IF program \in PurePrograms THEN {TRUE} ELSE BOOLEAN)
    /\ alive = TRUE
    /\ numTeams \in (IF program \in PurePrograms THEN {0} ELSE 0..MaxTeams)
    /\ viewTop = 0
    /\ browser = None
    /\ playwright = None
    /\ context = None
    /\ page = None
    /\ target_url = None
    /\ mpc = "idle"
    /\ ret = "none"
    /\ lastErr = "none"
    /\ i = 0
    /\ previous_count = 0
    /\ current_count = 0
    /\ IF program = "parser"
       THEN \E n \in 0..MaxMarkupRows : html_content \in [1..n -> MarkupRows]
       ELSE html_content = <<>>
    /\ standings_df = <<>>
    /\ files = <<>>
    /\ scraper = None
    /\ scraper_running = FALSE
    /\ scraper_initialized = FALSE
    /\ g = InitCounters
    /\ h = InitHistory
    /\ \E multi \in (IF program = "collector" THEN BOOLEAN ELSE {FALSE}) :
          col = InitCollector(multi)
    /\ IF program = "dashboard"
       THEN \E n \in 0..MaxExamples : examples \in [1..n -> ExampleFiles]
       ELSE IF program = "shared"
       THEN \E n \in 0..MaxExamples : examples \in [1..n -> SharedFiles]
       ELSE examples = <<>>
    /\ IF program \in {"dashboard", "shared"}
       THEN \E dir \in Directory(<<>>, examples) :
               /\ standings_data = load_data(dir).rows
               /\ pc = IF load_data(dir).raised THEN "import_failed" ELSE StartPc(program)
       ELSE /\ standings_data = <<>>
            /\ pc = StartPc(program)
    /\ cc = InitShared
    /\ latest = [kind |-> "unset"]
    /\ IF program = "projection"
       THEN /\ \E n \in 0..MaxEntries : \E f \in Frames(n) : df = Named(f)
            /\ sigma2 \in Sigma2Values
            /\ sims \in 1..MaxSims
            /\ random_state \in {Null} \cup {Some(x) : x \in 0..MaxPassedSeed}
       ELSE /\ df = <<>>
            /\ sigma2 = 1
            /\ sims = 1
            /\ random_state = Null
    /\ runs = <<>>

Next ==
    \/ start_scraper
    \/ stop_scraper
    \/ run_scraper_loop
    \/ scheduler
    \/ scrape_standings_legacy
    \/ client_call
    \/ initialize
    \/ refresh_and_scrape
    \/ close
    \/ main
    \/ scrape_standings
    \/ projection
    \/ update_content
    \/ create_plots
    \/ shared_standings_data
    \/ parser_main

Spec == Init /\ [][Next]_vars

\* The app alone: app.py:329-341 with the page's start and stop requests.
AppInit == Init /\ program = "app"

AppNext ==
    \/ start_scraper
    \/ stop_scraper
    \/ run_scraper_loop
    \/ initialize
    \/ refresh_and_scrape
    \/ close

\* The thread is scheduled again and again, and a browser operation that is
\* under way comes to an end (it returns or raises).
AppFairness ==
    /\ WF_vars(run_scraper_loop)
    /\ WF_vars(initialize)
    /\ WF_vars(refresh_and_scrape)
    /\ WF_vars(close)

AppSpec == AppInit /\ [][AppNext]_vars /\ AppFairness
====
